---- MODULE Spec2Model ----
(***************************************************************************)
(* A model of simple-expression-engine: the calendar arithmetic of         *)
(* date-utils, the variable resolver, the tokenizer, the parser, the       *)
(* evaluator and the engine's text substitution.                           *)
(*                                                                         *)
(* Strings are sequences of one-character strings.  A JavaScript Date is a *)
(* record [nan, day, tod]: nan marks the Invalid Date, day is the number   *)
(* of whole days since 1970-01-01 UTC and tod the seconds within that day. *)
(***************************************************************************)
EXTENDS Integers, Sequences, FiniteSets, TLC

VARIABLES options, call

vars == <<options, call>>

(***************************************************************************)
(* Characters                                                              *)
(***************************************************************************)
DigitChars == {"0", "1", "2", "3", "4", "5", "6", "7", "8", "9"}

UpperChars == {"A", "B", "C", "D", "E", "F", "G", "H", "I", "J", "K", "L", "M",
               "N", "O", "P", "Q", "R", "S", "T", "U", "V", "W", "X", "Y", "Z", "_"}

LowerChars == {"a", "b", "c", "d", "e", "f", "g", "h", "i", "j", "k", "l", "m",
               "n", "o", "p", "q", "r", "s", "t", "u", "v", "w", "x", "y", "z"}

SpaceChars == {" ", "\t", "\n"}

DigitVal(c) ==
  CASE c = "0" -> 0 [] c = "1" -> 1 [] c = "2" -> 2 [] c = "3" -> 3 [] c = "4" -> 4
    [] c = "5" -> 5 [] c = "6" -> 6 [] c = "7" -> 7 [] c = "8" -> 8 [] c = "9" -> 9

DigitChar(n) ==
  CASE n = 0 -> "0" [] n = 1 -> "1" [] n = 2 -> "2" [] n = 3 -> "3" [] n = 4 -> "4"
    [] n = 5 -> "5" [] n = 6 -> "6" [] n = 7 -> "7" [] n = 8 -> "8" [] n = 9 -> "9"

\* The decimal digits of a natural number, most significant first (String(n)).
RECURSIVE NatToStr(_)
NatToStr(n) == IF n < 10 THEN <<DigitChar(n)>>
               ELSE NatToStr(n \div 10) \o <<DigitChar(n % 10)>>

\* String(n) of an integer.
IntToStr(n) == IF n < 0 THEN <<"-">> \o NatToStr(0 - n) ELSE NatToStr(n)

\* s.padStart(2, '0')
PadStart2(s) == IF Len(s) < 2 THEN <<"0">> \o s ELSE s

\* The value of a run of decimal digits (parseInt(s, 10) on digits).
RECURSIVE DigitsToNat(_)
DigitsToNat(s) == IF Len(s) = 0 THEN 0
                  ELSE 10 * DigitsToNat(SubSeq(s, 1, Len(s) - 1)) + DigitVal(s[Len(s)])

AllDigits(s, from, to) == \A i \in from..to : s[i] \in DigitChars

(***************************************************************************)
(* The host's Date object (ECMAScript time values, in days and seconds)    *)
(***************************************************************************)
InvalidDate == [nan |-> TRUE, day |-> 0, tod |-> 0]

\* F applied to the value of x, which is computed once.
Once(F(_), x) == CHOOSE r \in {F(v) : v \in {x}} : TRUE

\* TimeClip: a time value beyond 100,000,000 days from the epoch is NaN.
TimeClip(date) == IF date.day > 100000000 \/ date.day < -100000000 THEN InvalidDate ELSE date

MkDate(day, tod) == Once(TimeClip, [nan |-> FALSE, day |-> day, tod |-> tod])

DaysInYear(y) == IF y % 4 # 0 THEN 365
                 ELSE IF y % 100 # 0 THEN 366
                 ELSE IF y % 400 # 0 THEN 365 ELSE 366

DayFromYear(y) == 365 * (y - 1970) + ((y - 1969) \div 4) - ((y - 1901) \div 100)
                  + ((y - 1601) \div 400)

\* The largest y with DayFromYear(y) <= day.
RECURSIVE YearSearch(_, _)
YearSearch(y, day) == IF DayFromYear(y) > day THEN YearSearch(y - 1, day)
                      ELSE IF DayFromYear(y + 1) <= day THEN YearSearch(y + 1, day)
                      ELSE y

YearOfDay(day) == YearSearch(1970 + (day \div 365), day)

YearFromDay(day) == Once(YearOfDay, day)

DayWithinYear(day) == day - DayFromYear(YearFromDay(day))

\* Days before month m (0-based, m in 0..12) in a common or a leap year.
MonthStart(m, leap) ==
  CASE m = 0 -> 0
    [] m = 1 -> 31
    [] m = 2 -> 59 + leap
    [] m = 3 -> 90 + leap
    [] m = 4 -> 120 + leap
    [] m = 5 -> 151 + leap
    [] m = 6 -> 181 + leap
    [] m = 7 -> 212 + leap
    [] m = 8 -> 243 + leap
    [] m = 9 -> 273 + leap
    [] m = 10 -> 304 + leap
    [] m = 11 -> 334 + leap
    [] m = 12 -> 365 + leap

LeapOf(y) == DaysInYear(y) - 365

\* MonthFromTime, 0-based.
MonthWithin(w, leap) ==
  CHOOSE m \in 0..11 : MonthStart(m, leap) <= w /\ w < MonthStart(m + 1, leap)

MonthInYear(yd) == MonthWithin(yd.day - DayFromYear(yd.y), LeapOf(yd.y))

MonthOfDay(day) == Once(MonthInYear, [y |-> YearFromDay(day), day |-> day])

MonthFromDay(day) == Once(MonthOfDay, day)

\* DateFromTime, 1-based.
DateInYear(yd) ==
  yd.day - DayFromYear(yd.y) - MonthStart(MonthFromDay(yd.day), LeapOf(yd.y)) + 1

DateOfDay(day) == Once(DateInYear, [y |-> YearFromDay(day), day |-> day])

DateFromDay(day) == Once(DateOfDay, day)

\* MakeDay(year, month, date): month is 0-based and may lie outside 0..11,
\* date may lie outside the month.
MakeDayOf(f) ==
  DayFromYear(f.year + (f.month \div 12))
    + MonthStart(f.month % 12, LeapOf(f.year + (f.month \div 12))) + f.date - 1

MakeDay(year, month, date) == Once(MakeDayOf, [year |-> year, month |-> month, date |-> date])

getUTCFullYear(date) == YearFromDay(date.day)
getUTCMonth(date) == MonthFromDay(date.day)
getUTCDate(date) == DateFromDay(date.day)

setUTCDate(date, dt) ==
  IF date.nan THEN InvalidDate
  ELSE MkDate(MakeDay(getUTCFullYear(date), getUTCMonth(date), dt), date.tod)

setUTCMonth(date, month) ==
  IF date.nan THEN InvalidDate
  ELSE MkDate(MakeDay(getUTCFullYear(date), month, getUTCDate(date)), date.tod)

\* setUTCFullYear on an Invalid Date starts from time +0.
setUTCFullYear(date, year) ==
  IF date.nan THEN MkDate(MakeDay(year, 0, 1), 0)
  ELSE MkDate(MakeDay(year, getUTCMonth(date), getUTCDate(date)), date.tod)

\* The Date at midnight UTC of day d of month m (1-based) of year y.
DateUTC(y, m, d) == MkDate(MakeDay(y, m - 1, d), 0)

(***************************************************************************)
(* new Date(string) for the ISO forms the code passes to it:               *)
(*   YYYY-MM-DDTHH:mm[:ss[.sss]][Z | +HH:mm | -HH:mm]                      *)
(* A day of month beyond the month's length but at most 31 is either       *)
(* rejected or rolled into the next month, depending on the host           *)
(* (host.lenient); a date-time without an offset is local time             *)
(* (host.tz, minutes east of UTC).                                         *)
(***************************************************************************)
\* Length of month m (1-based) of year y in the proleptic Gregorian calendar.
DaysInMonth(y, m) ==
  CASE m \in {1, 3, 5, 7, 8, 10, 12} -> 31
    [] m \in {4, 6, 9, 11} -> 30
    [] m = 2 -> IF (y % 4 = 0 /\ y % 100 # 0) \/ y % 400 = 0 THEN 29 ELSE 28

\* The time value for the given fields, offset in minutes east of UTC.
ISOFieldsToDate(host, y, mo, d, hh, mi, ss, offset) ==
  IF mo < 1 \/ mo > 12 \/ d < 1 \/ d > 31 THEN InvalidDate
  ELSE IF hh > 24 \/ mi > 59 \/ ss > 59 \/ (hh = 24 /\ (mi > 0 \/ ss > 0)) THEN InvalidDate
  ELSE IF d > DaysInMonth(y, mo) /\ ~host.lenient THEN InvalidDate
  ELSE LET secs == hh * 3600 + mi * 60 + ss - offset * 60
           day == MakeDay(y, mo - 1, d) + (secs \div 86400)
       IN  MkDate(day, secs % 86400)

\* The time part of an ISO string, starting after the 'T' at index 11.
\* Returns [ok, hh, mi, ss, local, offset].
BadTime == [ok |-> FALSE, hh |-> 0, mi |-> 0, ss |-> 0, local |-> FALSE, offset |-> 0]

ParseZone(s, from, hh, mi, ss) ==
  LET n == Len(s) - from + 1
  IN  IF n = 0 THEN [ok |-> TRUE, hh |-> hh, mi |-> mi, ss |-> ss, local |-> TRUE, offset |-> 0]
      ELSE IF n = 1 /\ s[from] = "Z"
        THEN [ok |-> TRUE, hh |-> hh, mi |-> mi, ss |-> ss, local |-> FALSE, offset |-> 0]
      ELSE IF n = 6 /\ s[from] \in {"+", "-"} /\ AllDigits(s, from + 1, from + 2)
              /\ s[from + 3] = ":" /\ AllDigits(s, from + 4, from + 5)
        THEN LET oh == DigitsToNat(SubSeq(s, from + 1, from + 2))
                 om == DigitsToNat(SubSeq(s, from + 4, from + 5))
                 sign == IF s[from] = "+" THEN 1 ELSE -1
             IN  IF oh > 23 \/ om > 59 THEN BadTime
                 ELSE [ok |-> TRUE, hh |-> hh, mi |-> mi, ss |-> ss, local |-> FALSE,
                       offset |-> sign * (oh * 60 + om)]
      ELSE BadTime

ParseTime(s) ==
  IF Len(s) < 16 \/ ~AllDigits(s, 12, 13) \/ s[14] # ":" \/ ~AllDigits(s, 15, 16) THEN BadTime
  ELSE LET hh == DigitsToNat(SubSeq(s, 12, 13))
           mi == DigitsToNat(SubSeq(s, 15, 16))
       IN  IF Len(s) >= 19 /\ s[17] = ":" /\ AllDigits(s, 18, 19)
           THEN LET ss == DigitsToNat(SubSeq(s, 18, 19))
                IN  IF Len(s) >= 23 /\ s[20] = "." /\ AllDigits(s, 21, 23)
                    THEN ParseZone(s, 24, hh, mi, ss)
                    ELSE ParseZone(s, 20, hh, mi, ss)
           ELSE ParseZone(s, 17, hh, mi, 0)

\* /^\d{4}-\d{2}-\d{2}/ at the start of s.
HasDatePrefix(s) ==
  /\ Len(s) >= 10
  /\ AllDigits(s, 1, 4) /\ s[5] = "-" /\ AllDigits(s, 6, 7) /\ s[8] = "-"
  /\ AllDigits(s, 9, 10)

\* new Date(s) for s of the form dddd-dd-ddT...
NewDateFromString(host, s) ==
  LET y == DigitsToNat(SubSeq(s, 1, 4))
      mo == DigitsToNat(SubSeq(s, 6, 7))
      d == DigitsToNat(SubSeq(s, 9, 10))
      t == ParseTime(s)
  IN  IF ~t.ok THEN InvalidDate
      ELSE ISOFieldsToDate(host, y, mo, d, t.hh, t.mi, t.ss,
                           IF t.local THEN host.tz ELSE t.offset)

(***************************************************************************)
(* date-utils                                                              *)
(***************************************************************************)
\* formatDate: the year is not padded; month and day are padded to two digits.
formatDate(date) ==
  IF date.nan THEN <<"N", "a", "N", "-", "N", "a", "N", "-", "N", "a", "N">>
  ELSE LET year == getUTCFullYear(date)
           month == PadStart2(NatToStr(getUTCMonth(date) + 1))
           day == PadStart2(NatToStr(getUTCDate(date)))
       IN  IntToStr(year) \o <<"-">> \o month \o <<"-">> \o day

\* parseDate returns a Date or null: [found, date].
NullDate == [found |-> FALSE, date |-> InvalidDate]
FoundDate(date) == [found |-> TRUE, date |-> date]

isoDateRegex(value) == Len(value) = 10 /\ HasDatePrefix(value)
isoDateTimeRegex(value) == Len(value) >= 11 /\ HasDatePrefix(value) /\ value[11] = "T"

ZeroTimeSuffix == <<"T", "0", "0", ":", "0", "0", ":", "0", "0", ".", "0", "0", "0", "Z">>

\* The two branches of parseDate, given the dates the host constructs: plain
\* from value + 'T00:00:00.000Z' and stamp from value itself.
parseDateBranches(value, plain, stamp) ==
  IF isoDateRegex(value) /\ ~plain.nan /\ formatDate(plain) = value
  THEN FoundDate(plain)
  ELSE IF isoDateTimeRegex(value) /\ ~stamp.nan
  THEN FoundDate(stamp)
  ELSE NullDate

parseDate(host, value) ==
  parseDateBranches(value, NewDateFromString(host, value \o ZeroTimeSuffix),
                    NewDateFromString(host, value))

TimeUnits == {"day", "days", "week", "weeks", "month", "months", "year", "years"}
Operators == {"+", "-"}

\* addMonths without the clamp to the end of the target month.
addMonthsNoClamp(result, actualAmount) ==
  setUTCMonth(result, getUTCMonth(result) + actualAmount)

addMonths(result, actualAmount) ==
  LET originalDay == getUTCDate(result)
      moved == setUTCMonth(result, getUTCMonth(result) + actualAmount)
  IN  IF moved.nan THEN moved
      ELSE IF getUTCDate(moved) # originalDay THEN setUTCDate(moved, 0) ELSE moved

\* addYears without the clamp of Feb 29.
addYearsNoClamp(result, actualAmount) ==
  setUTCFullYear(result, getUTCFullYear(result) + actualAmount)

addYears(result, actualAmount) ==
  LET originalDayYear == getUTCDate(result)
      moved == setUTCFullYear(result, getUTCFullYear(result) + actualAmount)
  IN  IF moved.nan THEN moved
      ELSE IF getUTCDate(moved) # originalDayYear THEN setUTCDate(moved, 0) ELSE moved

addDays(result, actualAmount) == setUTCDate(result, getUTCDate(result) + actualAmount)

\* addWeeks that forgets the factor 7.
addWeeksUnscaled(result, actualAmount) == setUTCDate(result, getUTCDate(result) + actualAmount)

addWeeks(result, actualAmount) == setUTCDate(result, getUTCDate(result) + actualAmount * 7)

addToDate(date, amount, unit, operator) ==
  LET multiplier == IF operator = "+" THEN 1 ELSE -1
      actualAmount == amount * multiplier
  IN  IF date.nan THEN InvalidDate
      ELSE CASE unit \in {"day", "days"} -> addDays(date, actualAmount)
             [] unit \in {"week", "weeks"} -> addWeeks(date, actualAmount)
             [] unit \in {"month", "months"} -> addMonths(date, actualAmount)
             [] unit \in {"year", "years"} -> addYears(date, actualAmount)
             [] OTHER -> date

(***************************************************************************)
(* Strings and numbers of the host                                         *)
(***************************************************************************)
RECURSIVE TrimStart(_)
TrimStart(s) == IF Len(s) > 0 /\ Head(s) \in SpaceChars THEN TrimStart(Tail(s)) ELSE s

RECURSIVE TrimEnd(_)
TrimEnd(s) == IF Len(s) > 0 /\ s[Len(s)] \in SpaceChars THEN TrimEnd(SubSeq(s, 1, Len(s) - 1))
              ELSE s

\* String.prototype.trim
Trim(s) == TrimEnd(TrimStart(s))

\* A Number: NaN, or sign, integer part and fraction digits without trailing zeros.
NaN == [nan |-> TRUE, neg |-> FALSE, int |-> 0, frac |-> <<>>]

RECURSIVE DropTrailingZeros(_)
DropTrailingZeros(s) == IF Len(s) > 0 /\ s[Len(s)] = "0"
                        THEN DropTrailingZeros(SubSeq(s, 1, Len(s) - 1)) ELSE s

\* The length of the run of digits of s that starts at index from.
RECURSIVE DigitRun(_, _)
DigitRun(s, from) == IF from <= Len(s) /\ s[from] \in DigitChars THEN 1 + DigitRun(s, from + 1)
                     ELSE 0

\* Number(value) for decimal literals [+-]digits[.digits], [+-].digits and the
\* empty or blank string (which is 0); any other text among the values used
\* here is NaN.
Number(value) ==
  LET t == Trim(value)
      signed == Len(t) > 0 /\ t[1] \in {"+", "-"}
      neg == Len(t) > 0 /\ t[1] = "-"
      start == IF signed THEN 2 ELSE 1
      nInt == DigitRun(t, start)
      dot == start + nInt
      hasDot == dot <= Len(t) /\ t[dot] = "."
      nFrac == IF hasDot THEN DigitRun(t, dot + 1) ELSE 0
      end == IF hasDot THEN dot + nFrac ELSE dot - 1
  IN  IF Len(t) = 0 THEN [nan |-> FALSE, neg |-> FALSE, int |-> 0, frac |-> <<>>]
      ELSE IF end # Len(t) \/ nInt + nFrac = 0 THEN NaN
      ELSE [nan |-> FALSE, neg |-> neg,
            int |-> DigitsToNat(SubSeq(t, start, start + nInt - 1)),
            frac |-> DropTrailingZeros(SubSeq(t, dot + 1, dot + nFrac))]

\* String(num)
NumberToString(num) ==
  IF num.nan THEN <<"N", "a", "N">>
  ELSE (IF num.neg /\ (num.int # 0 \/ Len(num.frac) > 0) THEN <<"-">> ELSE <<>>)
       \o NatToStr(num.int)
       \o (IF Len(num.frac) > 0 THEN <<".">> \o num.frac ELSE <<>>)

(***************************************************************************)
(* variable-resolver                                                       *)
(*                                                                         *)
(* A context maps names to strings.  A system-variable mapping maps names  *)
(* to providers: a provider returns the host's current date, returns a     *)
(* fixed Date, throws, or is undefined (a key whose value is undefined).   *)
(* A thrown value is [code, message]; code "none" means the value has no   *)
(* 'code' property.                                                        *)
(***************************************************************************)
NoError == [code |-> "none", message |-> "", token |-> <<>>]

ProvCurrentDate == [kind |-> "getCurrentDate", date |-> InvalidDate, error |-> NoError]
ProvReturns(date) == [kind |-> "returns", date |-> date, error |-> NoError]
ProvThrows(code, message) ==
  [kind |-> "throws", date |-> InvalidDate, error |-> [code |-> code, message |-> message, token |-> <<>>]]
ProvUndefined == [kind |-> "undefined", date |-> InvalidDate, error |-> NoError]

NameDATE == <<"D", "A", "T", "E">>

\* getCurrentDate: midnight UTC of the host's local calendar date.
getCurrentDate(host) == DateUTC(host.today.y, host.today.m, host.today.d)

DEFAULT_SYSTEM_VARIABLES == [n \in {NameDATE} |-> ProvCurrentDate]

\* { ...DEFAULT_SYSTEM_VARIABLES, ...systemVariables }
MergeSystemVariables(systemVariables) ==
  [n \in DOMAIN DEFAULT_SYSTEM_VARIABLES \cup DOMAIN systemVariables |->
     IF n \in DOMAIN systemVariables THEN systemVariables[n] ELSE DEFAULT_SYSTEM_VARIABLES[n]]

\* The outcome of a resolution: a typed value, null, or a thrown value; with
\* the number of provider invocations made.
Typed(type, date, num, str) == [type |-> type, date |-> date, num |-> num, str |-> str]
DateValue(date) == Typed("date", date, NaN, <<>>)
NumberValue(num) == Typed("number", InvalidDate, num, <<>>)
StringValue(str) == Typed("string", InvalidDate, NaN, str)
NoValue == Typed("none", InvalidDate, NaN, <<>>)

Returned(value, invoked) == [kind |-> "value", value |-> value, error |-> NoError, invoked |-> invoked]
ReturnedNull(invoked) == [kind |-> "null", value |-> NoValue, error |-> NoError, invoked |-> invoked]
Threw(error, invoked) == [kind |-> "throw", value |-> NoValue, error |-> error, invoked |-> invoked]

\* detectType without the check that the trimmed text is not empty.
detectTypeBlankIsNumber(value, date, num) ==
  IF date.found THEN Returned(DateValue(date.date), 0)
  ELSE IF ~num.nan THEN Returned(NumberValue(num), 0)
  ELSE Returned(StringValue(value), 0)

\* The type detection of resolveUserVariable, given date = parseDate(value)
\* and num = Number(value).
detectType(value, date, num) ==
  IF date.found THEN Returned(DateValue(date.date), 0)
  ELSE IF ~num.nan /\ Trim(value) # <<>> THEN Returned(NumberValue(num), 0)
  ELSE Returned(StringValue(value), 0)

resolveUserVariable(userContext, host, name) ==
  detectType(userContext[name], parseDate(host, userContext[name]), Number(userContext[name]))

resolveSystemVariable(systemVariables, host, name) ==
  IF name = NameDATE /\ systemVariables[NameDATE].kind # "undefined"
  THEN LET provider == systemVariables[NameDATE]
       IN  CASE provider.kind = "getCurrentDate" -> Returned(DateValue(getCurrentDate(host)), 1)
             [] provider.kind = "returns" -> Returned(DateValue(provider.date), 1)
             [] provider.kind = "throws" -> Threw(provider.error, 1)
  ELSE ReturnedNull(0)

\* resolve with the two priorities exchanged.
resolveSystemFirst(userContext, systemVariables, host, name) ==
  IF name \in DOMAIN systemVariables THEN resolveSystemVariable(systemVariables, host, name)
  ELSE IF name \in DOMAIN userContext THEN resolveUserVariable(userContext, host, name)
  ELSE ReturnedNull(0)

\* VariableResolver.resolve; systemVariables is the merged mapping.
resolve(userContext, systemVariables, host, name) ==
  IF name \in DOMAIN userContext THEN resolveUserVariable(userContext, host, name)
  ELSE IF name \in DOMAIN systemVariables THEN resolveSystemVariable(systemVariables, host, name)
  ELSE ReturnedNull(0)

(***************************************************************************)
(* tokenizer                                                               *)
(*                                                                         *)
(* Positions are 0-based as in the code: the current character of input s  *)
(* at position p is s[p + 1], and null when p >= Len(s).  A message is the *)
(* sequence of the fragments it is concatenated from.                      *)
(***************************************************************************)
Token(type, value, position) == [type |-> type, value |-> value, position |-> position]

\* The first position >= p whose character is not in class (readVariable,
\* readNumber, readUnit, skipWhitespace).
RunEnd(s, p, class) ==
  IF p >= Len(s) THEN p
  ELSE CHOOSE q \in p..Len(s) :
         /\ \A r \in (p + 1)..q : s[r] \in class
         /\ (q = Len(s) \/ s[q + 1] \notin class)

isValidTimeUnit(unit) ==
  unit \in {<<"d", "a", "y">>, <<"d", "a", "y", "s">>, <<"w", "e", "e", "k">>, <<"w", "e", "e", "k", "s">>, <<"m", "o", "n", "t", "h">>, <<"m", "o", "n", "t", "h", "s">>, <<"y", "e", "a", "r">>, <<"y", "e", "a", "r", "s">>}

isValidOperator(op) == op = "+" \/ op = "-"

\* A thrown value without a 'code' property (an Error).
PlainError(message) == [code |-> "none", message |-> message, token |-> <<>>]

\* skipWhitespace that skips one whitespace character at most.
skipWhitespaceOnce(s, position) ==
  IF position < Len(s) /\ s[position + 1] \in SpaceChars THEN position + 1 ELSE position

\* Tokenizer.skipWhitespace: the position after the whitespace at position.
skipWhitespace(s, position) == RunEnd(s, position, SpaceChars)

RECURSIVE TokenizeFrom(_, _, _)
TokenizeFrom(s, position, tokens) ==
  LET p == skipWhitespace(s, position)
  IN  IF position >= Len(s) \/ p >= Len(s)
      THEN [ok |-> TRUE, tokens |-> Append(tokens, Token("EOF", <<>>, IF position >= Len(s) THEN position ELSE p)),
            error |-> NoError]
      ELSE LET c == s[p + 1]
           IN  IF c \in UpperChars
               THEN TokenizeFrom(s, RunEnd(s, p, UpperChars),
                      Append(tokens, Token("VAR", SubSeq(s, p + 1, RunEnd(s, p, UpperChars)), p)))
               ELSE IF isValidOperator(c)
               THEN TokenizeFrom(s, p + 1, Append(tokens, Token("OPERATOR", <<c>>, p)))
               ELSE IF c \in DigitChars
               THEN TokenizeFrom(s, RunEnd(s, p, DigitChars),
                      Append(tokens, Token("NUMBER", SubSeq(s, p + 1, RunEnd(s, p, DigitChars)), p)))
               ELSE IF c \in LowerChars
               THEN TokenizeFrom(s, RunEnd(s, p, LowerChars),
                      Append(tokens, Token("UNIT", SubSeq(s, p + 1, RunEnd(s, p, LowerChars)), p)))
               ELSE [ok |-> FALSE, tokens |-> tokens,
                     error |-> PlainError(<<"Unexpected character '", c, "' at position ">> \o NatToStr(p))]

\* new Tokenizer(input).tokenize()
tokenize(input) == TokenizeFrom(Trim(input), 0, <<>>)

(***************************************************************************)
(* parser                                                                  *)
(***************************************************************************)
VarRef(name) == [type |-> "var_ref", name |-> name]
DateArithmetic(base, operator, amount, unit) ==
  [type |-> "date_arithmetic", base |-> base, operator |-> operator, amount |-> amount,
   unit |-> unit]

\* The unit of the AST as one of TimeUnits.
UnitName(text) ==
  CASE text = <<"d", "a", "y">> -> "day" [] text = <<"d", "a", "y", "s">> -> "days"
    [] text = <<"w", "e", "e", "k">> -> "week" [] text = <<"w", "e", "e", "k", "s">> -> "weeks"
    [] text = <<"m", "o", "n", "t", "h">> -> "month" [] text = <<"m", "o", "n", "t", "h", "s">> -> "months"
    [] text = <<"y", "e", "a", "r">> -> "year" [] text = <<"y", "e", "a", "r", "s">> -> "years"

\* Parser.error; position -1 stands for an absent position.
ParseError(code, message, token, position) ==
  [code |-> code, message |-> message, token |-> token, position |-> position]

NoParseError == ParseError("none", <<>>, <<>>, -1)

NoNode == [type |-> "none"]

ParseOk(node, current) == [ok |-> TRUE, node |-> node, current |-> current, error |-> NoParseError]
ParseThrow(message, token) ==
  [ok |-> FALSE, node |-> NoNode, current |-> 0,
   error |-> ParseError("PARSE_ERROR", message, token.value, token.position)]

\* Parser.currentToken and Parser.advance; current is 0-based.
currentToken(tokens, current) == tokens[current + 1]
advance(tokens, current) == IF currentToken(tokens, current).type # "EOF" THEN current + 1 ELSE current

parsePrimary(tokens, current) ==
  LET token == currentToken(tokens, current)
  IN  IF token.type = "VAR" THEN ParseOk(VarRef(token.value), advance(tokens, current))
      ELSE ParseThrow(<<"Expected variable name">>, token)

\* A node that applies the new operation before those already parsed.
RECURSIVE wrapNodeInnermost(_, _, _, _)
wrapNodeInnermost(node, operator, amount, unit) ==
  IF node.type = "var_ref" THEN DateArithmetic(node, operator, amount, unit)
  ELSE [node EXCEPT !.base = wrapNodeInnermost(node.base, operator, amount, unit)]

\* The DateArithmetic node built with the previous node as its base.
wrapNode(node, operator, amount, unit) == DateArithmetic(node, operator, amount, unit)

\* The loop of parseExpression, from the state (current, node).
\* parseOperations without the check that the amount is positive.
RECURSIVE parseOperationsAllowZero(_, _, _, _)
parseOperationsAllowZero(tokens, current, node, maxIntervalAmount) ==
  IF currentToken(tokens, current).type # "OPERATOR" THEN ParseOk(node, current)
  ELSE
    LET opToken == currentToken(tokens, current)
        c1 == advance(tokens, current)
        numToken == currentToken(tokens, c1)
        amount == DigitsToNat(numToken.value)
        c2 == advance(tokens, c1)
        unitToken == currentToken(tokens, c2)
        c3 == advance(tokens, c2)
    IN  IF numToken.type # "NUMBER"
        THEN ParseThrow(<<"Expected ", "NUMBER", ", got ", numToken.type>>, numToken)
        ELSE IF amount > maxIntervalAmount
        THEN ParseThrow(<<"Interval amount ">> \o NatToStr(amount) \o <<" exceeds maximum ">>
                          \o NatToStr(maxIntervalAmount), numToken)
        ELSE IF unitToken.type # "UNIT" \/ ~isValidTimeUnit(unitToken.value)
        THEN ParseThrow(<<"Expected ", "UNIT", ", got ", unitToken.type>>, unitToken)
        ELSE parseOperationsAllowZero(tokens, c3,
               wrapNode(node, opToken.value[1], amount, UnitName(unitToken.value)),
               maxIntervalAmount)

\* parseOperations that accepts amounts one above the limit.
RECURSIVE parseOperationsOverLimit(_, _, _, _)
parseOperationsOverLimit(tokens, current, node, maxIntervalAmount) ==
  IF currentToken(tokens, current).type # "OPERATOR" THEN ParseOk(node, current)
  ELSE
    LET opToken == currentToken(tokens, current)
        c1 == advance(tokens, current)
        numToken == currentToken(tokens, c1)
        amount == DigitsToNat(numToken.value)
        c2 == advance(tokens, c1)
        unitToken == currentToken(tokens, c2)
        c3 == advance(tokens, c2)
    IN  IF numToken.type # "NUMBER"
        THEN ParseThrow(<<"Expected ", "NUMBER", ", got ", numToken.type>>, numToken)
        ELSE IF amount <= 0
        THEN ParseThrow(<<"Interval amount must be a positive integer">>, numToken)
        ELSE IF amount > maxIntervalAmount + 1
        THEN ParseThrow(<<"Interval amount ">> \o NatToStr(amount) \o <<" exceeds maximum ">>
                          \o NatToStr(maxIntervalAmount), numToken)
        ELSE IF unitToken.type # "UNIT" \/ ~isValidTimeUnit(unitToken.value)
        THEN ParseThrow(<<"Expected ", "UNIT", ", got ", unitToken.type>>, unitToken)
        ELSE parseOperationsOverLimit(tokens, c3,
               wrapNode(node, opToken.value[1], amount, UnitName(unitToken.value)),
               maxIntervalAmount)

RECURSIVE parseOperations(_, _, _, _)
parseOperations(tokens, current, node, maxIntervalAmount) ==
  IF currentToken(tokens, current).type # "OPERATOR" THEN ParseOk(node, current)
  ELSE
    LET opToken == currentToken(tokens, current)
        c1 == advance(tokens, current)
        numToken == currentToken(tokens, c1)
        amount == DigitsToNat(numToken.value)
        c2 == advance(tokens, c1)
        unitToken == currentToken(tokens, c2)
        c3 == advance(tokens, c2)
    IN  IF ~isValidOperator(opToken.value[1])
        THEN ParseThrow(<<"Invalid operator '", opToken.value[1], "'">>, opToken)
        ELSE IF numToken.type # "NUMBER"
        THEN ParseThrow(<<"Expected ", "NUMBER", ", got ", numToken.type>>, numToken)
        ELSE IF amount <= 0
        THEN ParseThrow(<<"Interval amount must be a positive integer">>, numToken)
        ELSE IF amount > maxIntervalAmount
        THEN ParseThrow(<<"Interval amount ">> \o NatToStr(amount) \o <<" exceeds maximum ">>
                          \o NatToStr(maxIntervalAmount), numToken)
        ELSE IF unitToken.type # "UNIT"
        THEN ParseThrow(<<"Expected ", "UNIT", ", got ", unitToken.type>>, unitToken)
        ELSE IF ~isValidTimeUnit(unitToken.value)
        THEN ParseThrow(<<"Invalid time unit '">> \o unitToken.value
                          \o <<"'. Must be one of: day, days, week, weeks, month, months, year, years">>,
                        unitToken)
        ELSE parseOperations(tokens, c3,
               wrapNode(node, opToken.value[1], amount, UnitName(unitToken.value)),
               maxIntervalAmount)

parseExpression(tokens, maxIntervalAmount) ==
  LET primary == parsePrimary(tokens, 0)
  IN  IF ~primary.ok THEN primary
      ELSE parseOperations(tokens, primary.current, primary.node, maxIntervalAmount)

\* Parser.parse
\* parserParse without the check for trailing tokens.
parserParseNoEOF(tokens, maxIntervalAmount) == parseExpression(tokens, maxIntervalAmount)

parserParse(tokens, maxIntervalAmount) ==
  LET expr == parseExpression(tokens, maxIntervalAmount)
  IN  IF ~expr.ok THEN expr
      ELSE IF currentToken(tokens, expr.current).type # "EOF"
      THEN ParseThrow(<<"Unexpected tokens after expression">>, currentToken(tokens, expr.current))
      ELSE expr

\* parse(expression, options): [success, value, error].
ParseSuccess(ast) == [success |-> TRUE, value |-> ast, error |-> NoParseError]
ParseFailure(error) == [success |-> FALSE, value |-> NoNode, error |-> error]

\* The conversion of the parser's outcome to a ParseResult.
toParseResult(r) == IF r.ok THEN ParseSuccess(r.node) ELSE ParseFailure(r.error)

\* parse after the length check, given t = tokenize(expression): a tokenizer
\* error is a plain Error, reported with the expression as its token.
parseTokens(expression, t, limits) ==
  IF ~t.ok THEN ParseFailure(ParseError("PARSE_ERROR", t.error.message, expression, -1))
  ELSE toParseResult(parserParse(t.tokens, limits.maxIntervalAmount))

\* parse that tokenizes before it checks the length.
parseLengthAfterTokenize(expression, limits) ==
  IF ~tokenize(expression).ok
  THEN parseTokens(expression, tokenize(expression), limits)
  ELSE IF Len(expression) > limits.maxExpressionLength
  THEN ParseFailure(ParseError("EXPRESSION_TOO_LONG",
         <<"Expression exceeds maximum length of ">> \o NatToStr(limits.maxExpressionLength)
           \o <<" characters">>, expression, -1))
  ELSE parseTokens(expression, tokenize(expression), limits)

parse(expression, limits) ==
  IF Len(expression) > limits.maxExpressionLength
  THEN ParseFailure(ParseError("EXPRESSION_TOO_LONG",
         <<"Expression exceeds maximum length of ">> \o NatToStr(limits.maxExpressionLength)
           \o <<" characters">>, expression, -1))
  ELSE parseTokens(expression, tokenize(expression), limits)

(***************************************************************************)
(* evaluator                                                               *)
(***************************************************************************)
UnitText(unit) ==
  CASE unit = "day" -> <<"d", "a", "y">> [] unit = "days" -> <<"d", "a", "y", "s">>
    [] unit = "week" -> <<"w", "e", "e", "k">> [] unit = "weeks" -> <<"w", "e", "e", "k", "s">>
    [] unit = "month" -> <<"m", "o", "n", "t", "h">> [] unit = "months" -> <<"m", "o", "n", "t", "h", "s">>
    [] unit = "year" -> <<"y", "e", "a", "r">> [] unit = "years" -> <<"y", "e", "a", "r", "s">>

\* JSON.stringify(node)
RECURSIVE JsonOf(_)
JsonOf(node) ==
  IF node.type = "var_ref"
  THEN <<"{", "\"", "t", "y", "p", "e", "\"", ":", "\"", "v", "a", "r", "_", "r", "e", "f", "\"", ",", "\"", "n", "a", "m", "e", "\"", ":", "\"">> \o node.name \o <<"\"", "}">>
  ELSE <<"{", "\"", "t", "y", "p", "e", "\"", ":", "\"", "d", "a", "t", "e", "_", "a", "r", "i", "t", "h", "m", "e", "t", "i", "c", "\"", ",", "\"", "b", "a", "s", "e", "\"", ":">> \o JsonOf(node.base)
       \o <<",", "\"", "o", "p", "e", "r", "a", "t", "o", "r", "\"", ":", "\"">> \o <<node.operator>>
       \o <<"\"", ",", "\"", "a", "m", "o", "u", "n", "t", "\"", ":">> \o NatToStr(node.amount)
       \o <<",", "\"", "u", "n", "i", "t", "\"", ":", "\"">> \o UnitText(node.unit) \o <<"\"", "}">>

\* Evaluator.error
EvaluationError(code, message, token) == [code |-> code, message |-> message, token |-> token]

\* requireDefined that takes the name of an undefined variable for its value.
requireDefinedAsString(node, value) ==
  IF value.kind = "null" THEN Returned(StringValue(node.name), value.invoked) ELSE value

\* The null check of evaluateVarRef on the value resolve returned.
requireDefined(node, value) ==
  IF value.kind = "null"
  THEN Threw(EvaluationError("UNDEFINED_VARIABLE",
               <<"Variable '">> \o node.name \o <<"' is not defined">>, node.name),
             value.invoked)
  ELSE value

evaluateVarRef(node, context, systemVariables, host) ==
  requireDefined(node, resolve(context, systemVariables, host, node.name))

\* The part of evaluateDateArithmetic that follows the evaluation of the base.
\* applyDateArithmetic without the type check: a value that is not a date is
\* returned as it is.
applyDateArithmeticUnchecked(node, baseValue) ==
  IF baseValue.kind = "throw" \/ baseValue.value.type # "date" THEN baseValue
  ELSE Returned(DateValue(addToDate(baseValue.value.date, node.amount, node.unit, node.operator)),
                baseValue.invoked)

applyDateArithmetic(node, baseValue) ==
  IF baseValue.kind = "throw" THEN baseValue
  ELSE IF baseValue.value.type # "date"
  THEN Threw(EvaluationError("TYPE_ERROR",
               <<"Cannot perform date arithmetic on ", baseValue.value.type, " value">>,
               JsonOf(node)),
             baseValue.invoked)
  ELSE Returned(DateValue(addToDate(baseValue.value.date, node.amount, node.unit, node.operator)),
                baseValue.invoked)

\* Evaluator.evaluate, with evaluateDateArithmetic evaluating its base first.
RECURSIVE evaluateNode(_, _, _, _)
evaluateNode(node, context, systemVariables, host) ==
  CASE node.type = "var_ref" -> evaluateVarRef(node, context, systemVariables, host)
    [] node.type = "date_arithmetic" ->
         applyDateArithmetic(node, evaluateNode(node.base, context, systemVariables, host))
    [] OTHER -> Threw(EvaluationError("UNKNOWN_NODE_TYPE", <<"Unknown AST node type">>, <<>>), 0)

\* evaluate(ast, context, systemVariables): [success, value, error], with the
\* number of provider invocations made.
EvalSuccess(value, invoked) ==
  [success |-> TRUE, value |-> value, error |-> NoError, invoked |-> invoked]
EvalFailure(error, invoked) ==
  [success |-> FALSE, value |-> <<>>, error |-> error, invoked |-> invoked]

\* The catch block of evaluate.
evaluateCatch(error, invoked) ==
  IF error.code # "none" THEN EvalFailure(error, invoked)
  ELSE EvalFailure(EvaluationError("EVALUATION_ERROR", error.message, <<>>), invoked)

\* The conversion of the evaluator's outcome to an EvaluationResult: the
\* switch on the value's type, or the catch block.
toEvaluationResult(result) ==
  IF result.kind = "throw" THEN evaluateCatch(result.error, result.invoked)
  ELSE CASE result.value.type = "date" ->
              EvalSuccess(formatDate(result.value.date), result.invoked)
         [] result.value.type = "number" ->
              EvalSuccess(NumberToString(result.value.num), result.invoked)
         [] result.value.type = "string" ->
              EvalSuccess(result.value.str, result.invoked)

evaluate(ast, context, systemVariables, host) ==
  toEvaluationResult(evaluateNode(ast, context, MergeSystemVariables(systemVariables), host))

\* { ...'text' }: spreading a string gives one key per index, '0', '1', ...,
\* each holding a character (which is not a provider function).
spreadString(text) ==
  [n \in {NatToStr(i - 1) : i \in 1..Len(text)} |->
     [kind |-> "character", date |-> InvalidDate, error |-> NoError]]

\* The value of a property that an object does not have.
Undefined == <<"undefined">>

\* error.fieldId of an error object built by Evaluator.error or by
\* evaluate's catch block.
fieldIdOf(error) == IF "fieldId" \in DOMAIN error THEN error.fieldId ELSE Undefined

(***************************************************************************)
(* engine                                                                  *)
(***************************************************************************)
\* tokenRegex /\{\{([^}]+)\}\}/ tried at index i (1-based) of text: the index
\* of the last character of the match, or 0.  [^}]+ is greedy and can only
\* end before a '}', so the match is the maximal run without '}' followed
\* by '}}'.
RECURSIVE InnerEnd(_, _)
InnerEnd(text, j) == IF j <= Len(text) /\ text[j] # "}" THEN InnerEnd(text, j + 1) ELSE j

MatchAt(text, i) ==
  IF i + 1 <= Len(text) /\ text[i] = "{" /\ text[i + 1] = "{"
  THEN LET e == InnerEnd(text, i + 2)
       IN  IF e > i + 2 /\ e + 1 <= Len(text) /\ text[e] = "}" /\ text[e + 1] = "}"
           THEN e + 1 ELSE 0
  ELSE 0

\* The successive matches of the global regex from index i on: [from, to].
RECURSIVE MatchesFrom(_, _)
MatchesFrom(text, i) ==
  IF i > Len(text) THEN <<>>
  ELSE IF MatchAt(text, i) > 0
  THEN <<[from |-> i, to |-> MatchAt(text, i)]>> \o MatchesFrom(text, MatchAt(text, i) + 1)
  ELSE MatchesFrom(text, i + 1)

Matches(text) == MatchesFrom(text, 1)

\* The callback given to text.replace, for one match: the replacement and
\* the errors pushed.
\* The callback after evaluation: a failure keeps the token and pushes the
\* evaluator's error, a success returns the value.
callbackEvaluated(match, evalResult) ==
  IF ~evalResult.success
  THEN [replacement |-> match, pushed |-> <<evalResult.error>>, invoked |-> evalResult.invoked]
  ELSE [replacement |-> evalResult.value, pushed |-> <<>>, invoked |-> evalResult.invoked]

\* The callback after parsing: a failure keeps the token and pushes the
\* parser's error with the token as its token.
callbackParsed(match, parseResult, opts, context, host) ==
  IF ~parseResult.success
  THEN [replacement |-> match,
        pushed |-> <<EvaluationError(parseResult.error.code, parseResult.error.message, match)>>,
        invoked |-> 0]
  ELSE callbackEvaluated(match, evaluate(parseResult.value, context, opts.systemVariables, host))

replaceCallback(match, opts, context, host) ==
  callbackParsed(match,
                 parse(Trim(SubSeq(match, 3, Len(match) - 2)),
                       [maxExpressionLength |-> opts.maxExpressionLength,
                        maxIntervalAmount |-> opts.maxIntervalAmount]),
                 opts, context, host)

\* appendReplacement that puts the errors of a token before the earlier ones.
appendReplacementErrorsFirst(acc, gap, r) ==
  [text |-> acc.text \o gap \o r.replacement,
   errors |-> r.pushed \o acc.errors,
   invoked |-> acc.invoked + r.invoked]

\* The output so far, extended by the text before a match and by what the
\* callback returned for it.
appendReplacement(acc, gap, r) ==
  [text |-> acc.text \o gap \o r.replacement,
   errors |-> acc.errors \o r.pushed,
   invoked |-> acc.invoked + r.invoked]

\* replaceAll that stops replacing at the first failing token.
RECURSIVE replaceAllStopAtError(_, _, _, _, _, _, _)
replaceAllStopAtError(text, ms, k, acc, opts, context, host) ==
  IF k > Len(ms) \/ Len(acc.errors) > 0
  THEN [acc EXCEPT !.text = @ \o SubSeq(text, (IF k = 1 THEN 1 ELSE ms[k - 1].to + 1), Len(text))]
  ELSE replaceAllStopAtError(text, ms, k + 1,
         appendReplacement(acc,
           SubSeq(text, (IF k = 1 THEN 1 ELSE ms[k - 1].to + 1), ms[k].from - 1),
           replaceCallback(SubSeq(text, ms[k].from, ms[k].to), opts, context, host)),
         opts, context, host)

\* replaceAll that trims the text it copies between the matches.
RECURSIVE replaceAllTrimsGaps(_, _, _, _, _, _, _)
replaceAllTrimsGaps(text, ms, k, acc, opts, context, host) ==
  IF k > Len(ms)
  THEN [acc EXCEPT !.text = @ \o Trim(SubSeq(text, (IF k = 1 THEN 1 ELSE ms[k - 1].to + 1), Len(text)))]
  ELSE replaceAllTrimsGaps(text, ms, k + 1,
         appendReplacement(acc,
           Trim(SubSeq(text, (IF k = 1 THEN 1 ELSE ms[k - 1].to + 1), ms[k].from - 1)),
           replaceCallback(SubSeq(text, ms[k].from, ms[k].to), opts, context, host)),
         opts, context, host)

\* text.replace(tokenRegex, callback): the matches are replaced from left to
\* right, the text between them is copied; acc is [text, errors, invoked].
RECURSIVE replaceAll(_, _, _, _, _, _, _)
replaceAll(text, ms, k, acc, opts, context, host) ==
  IF k > Len(ms)
  THEN [acc EXCEPT !.text = @ \o SubSeq(text, (IF k = 1 THEN 1 ELSE ms[k - 1].to + 1), Len(text))]
  ELSE replaceAll(text, ms, k + 1,
         appendReplacement(acc,
           SubSeq(text, (IF k = 1 THEN 1 ELSE ms[k - 1].to + 1), ms[k].from - 1),
           replaceCallback(SubSeq(text, ms[k].from, ms[k].to), opts, context, host)),
         opts, context, host)

\* processText that scans the text it produced once more.
rescan(first, opts, context, host) ==
  replaceAll(first.text, Matches(first.text), 1,
             [text |-> <<>>, errors |-> first.errors, invoked |-> first.invoked],
             opts, context, host)

processTextRescans(opts, text, context, host) ==
  rescan(replaceAll(text, Matches(text), 1, [text |-> <<>>, errors |-> <<>>, invoked |-> 0],
                    opts, context, host),
         opts, context, host)

\* ExpressionEngine.processText
processText(opts, text, context, host) ==
  replaceAll(text, Matches(text), 1, [text |-> <<>>, errors |-> <<>>, invoked |-> 0],
             opts, context, host)

\* tokenRegex.exec(text) with the regex's lastIndex (0-based): the match
\* found at or after lastIndex, or null.
exec(text, lastIndex) ==
  IF \E i \in (lastIndex + 1)..Len(text) : MatchAt(text, i) > 0
  THEN [found |-> TRUE,
        index |-> CHOOSE i \in (lastIndex + 1)..Len(text) :
                    /\ MatchAt(text, i) > 0
                    /\ \A k \in (lastIndex + 1)..(i - 1) : MatchAt(text, k) = 0]
  ELSE [found |-> FALSE, index |-> 0]

\* execLoop that pushes the captured group instead of the whole match.
RECURSIVE execLoopInner(_, _, _)
execLoopInner(text, lastIndex, expressions) ==
  IF ~exec(text, lastIndex).found THEN expressions
  ELSE execLoopInner(text, MatchAt(text, exec(text, lastIndex).index),
                     Append(expressions,
                            SubSeq(text, exec(text, lastIndex).index + 2,
                                   MatchAt(text, exec(text, lastIndex).index) - 2)))

\* The loop of extractExpressions: match[0] is pushed and the regex resumes
\* at the end of the match.
RECURSIVE execLoop(_, _, _)
execLoop(text, lastIndex, expressions) ==
  IF ~exec(text, lastIndex).found THEN expressions
  ELSE execLoop(text, MatchAt(text, exec(text, lastIndex).index),
                Append(expressions,
                       SubSeq(text, exec(text, lastIndex).index,
                              MatchAt(text, exec(text, lastIndex).index))))

\* ExpressionEngine.extractExpressions: a new regex, lastIndex 0.
extractExpressions(text) == execLoop(text, 0, <<>>)

\* expression.replace(/^\{\{|\}\}$/g, ''): a leading '{{' and a trailing '}}'
\* are removed, each on its own.
stripBraces(expression) ==
  SubSeq(expression,
         (IF Len(expression) >= 2 /\ expression[1] = "{" /\ expression[2] = "{" THEN 3 ELSE 1),
         (IF Len(expression) >= 2 /\ expression[Len(expression)] = "}"
             /\ expression[Len(expression) - 1] = "}"
          THEN Len(expression) - 2 ELSE Len(expression)))

\* The result of validateExpression for a ParseResult: the error property is
\* present on failure only.
validationResult(parseResult) ==
  IF ~parseResult.success
  THEN [valid |-> FALSE, hasError |-> TRUE, error |-> parseResult.error.message]
  ELSE [valid |-> TRUE, hasError |-> FALSE, error |-> <<>>]

\* ExpressionEngine.validateExpression
validateExpression(opts, expression) ==
  validationResult(parse(Trim(stripBraces(expression)),
                         [maxExpressionLength |-> opts.maxExpressionLength,
                          maxIntervalAmount |-> opts.maxIntervalAmount]))

(***************************************************************************)
(* Inputs                                                                  *)
(***************************************************************************)
\* The hosts: whether new Date(string) rolls an overlong month forward, the
\* local time zone in minutes east of UTC, and the local calendar date.
Hosts == [lenient : BOOLEAN, tz : {-480, 330}, today : {[y |-> 2026, m |-> 2, d |-> 16]}]

MaxAmount == 3

SampleYears == {999, 1900, 2000, 2024, 9999}
SampleDays == {1, 28, 29, 30, 31}
SampleAmounts == (1..MaxAmount) \cup {12, 13, 25, 10000}

\* Calendar dates (year, month 1..12, day of that month).
SampleCivil == {c \in [y : SampleYears, m : 1..12, d : SampleDays] : c.d <= DaysInMonth(c.y, c.m)}

CivilToDate(c) == DateUTC(c.y, c.m, c.d)

Pad(n, width) ==
  LET s == NatToStr(n)
  IN  [i \in 1..(width - Len(s)) |-> "0"] \o s

\* The text dddd-dd-dd with the given field values.
PlainText(y, m, d) == Pad(y, 4) \o <<"-">> \o Pad(m, 2) \o <<"-">> \o Pad(d, 2)

PlainYears == {0, 50, 999, 1000, 2024, 2026, 9999}
PlainMonths == {0, 1, 2, 4, 12, 13}
PlainDays == {0, 1, 28, 29, 30, 31, 32}

OtherTexts ==
  { <<>>,
    <<"i", "n", "v", "a", "l", "i", "d">>,
    <<"2", "0", "2", "6", "-", "2", "-", "1", "6">>,
    <<"2", "0", "2", "6", "/", "0", "2", "/", "1", "6">>,
    PlainText(2026, 2, 16) \o <<"T", "1", "4", ":", "3", "0", ":", "0", "0", "Z">>,
    PlainText(2026, 2, 16) \o <<"T">>,
    PlainText(2026, 2, 30) \o <<"T", "2", "3", ":", "3", "0", "+", "0", "5", ":", "3", "0">>,
    PlainText(2026, 2, 16) \o <<"T", "2", "3", ":", "3", "0">>,
    PlainText(2026, 2, 16) \o <<" ">> }

FormatInputs ==
  {CivilToDate(c) : c \in SampleCivil}
    \cup {DateUTC(y, 1, 1) : y \in {-1, 0, 1, 99, 100, 10000}}
    \cup {MkDate(MakeDay(2026, 1, 16), 52200), InvalidDate}

(***************************************************************************)
(* The state: the engine's options, set by the constructor, and the last   *)
(* call made with its arguments and its result.                            *)
(***************************************************************************)
NoCall == [op |-> "none"]

NameNAME == <<"N", "A", "M", "E">>
NameD == <<"D">>
NameN == <<"N">>
NameUNDEF == <<"U", "N", "D", "E", "F">>
NameNOW == <<"N", "O", "W">>

\* new ExpressionEngine(options): absent options take their defaults.
EngineOptions(maxExpressionLength, maxIntervalAmount, systemVariables) ==
  [maxExpressionLength |-> maxExpressionLength, maxIntervalAmount |-> maxIntervalAmount,
   systemVariables |-> systemVariables]

NoSystemVariables == [n \in {} |-> ProvUndefined]

DefaultOptions == EngineOptions(200, 10000, NoSystemVariables)

ChristmasDate == DateUTC(2025, 12, 25)

OptionSets ==
  { DefaultOptions,
    EngineOptions(10, 100, NoSystemVariables),
    EngineOptions(200, 10000, [n \in {NameDATE} |-> ProvReturns(ChristmasDate)]),
    EngineOptions(200, 10000, [n \in {NameDATE} |-> ProvThrows("none", <<"clock failed">>)]),
    EngineOptions(200, 10000, [n \in {NameDATE} |-> ProvThrows("ENOENT", <<"no such file">>)]),
    EngineOptions(200, 10000, [n \in {NameDATE} |-> ProvUndefined]),
    EngineOptions(200, 10000, [n \in {NameNOW} |-> ProvReturns(ChristmasDate)]) }

\* Variable contexts: name |-> string.
ContextPlain ==
  [n \in {NameNAME, NameD, NameN} |->
     CASE n = NameNAME -> <<"W", "o", "r", "l", "d">>
       [] n = NameD -> <<"2", "0", "2", "6", "-", "0", "1", "-", "3", "1">>
       [] n = NameN -> <<" ", "4", "2", ".", "5", "0", " ">>]

ContextShadow ==
  [n \in {NameDATE, NameNAME, NameD, NameN} |->
     CASE n = NameDATE -> <<"2", "0", "2", "5", "-", "0", "1", "-", "0", "1">>
       [] n = NameNAME -> <<"{", "{", "D", "}", "}">>
       [] n = NameD -> <<"2", "0", "2", "4", "-", "0", "2", "-", "2", "9", "T", "2", "3", ":", "3", "0", ":", "0", "0", "+", "0", "5", ":", "3", "0">>
       [] n = NameN -> <<"2", "0", "2", "6", "-", "0", "2", "-", "3", "0">>]

ContextEmpty == [n \in {} |-> <<>>]

Contexts == {ContextPlain, ContextShadow, ContextEmpty}

\* Values that are neither dates nor numbers, and a signed fraction.
ContextOdd ==
  [n \in {NameDATE, NameNAME, NameD, NameN} |->
     CASE n = NameDATE -> <<"1", "2", "a", "b", "c">>
       [] n = NameNAME -> <<>>
       [] n = NameD -> <<" ", " ", " ">>
       [] n = NameN -> <<"-", ".", "5", "0">>]

\* The contexts given to the resolver and to evaluate.
EvalContexts == Contexts \cup {ContextOdd}

MaxChunks == 2
MaxOps == 2

\* Pieces of text: literal text, stray braces and {{...}} tokens.
Chunks ==
  { <<"H", "i", " ">>,
    <<"}", "{">>,
    <<"{", "{", "N", "A", "M", "E", "}", "}">>,
    <<"{", "{", " ", "D", " ", "+", " ", "1", " ", "m", "o", "n", "t", "h", " ", "}", "}">>,
    <<"{", "{", "D", "A", "T", "E", "}", "}">>,
    <<"{", "{", "x", "}", "}">>,
    <<"{", "{", "U", "N", "D", "E", "F", "}", "}">>,
    <<"{", "{", "N", " ", "+", " ", "2", "0", "0", " ", "d", "a", "y", "s", "}", "}">>,
    <<"{", "{", "A", "}", "B", "}", "}">>,
    <<"{", "{", "V", "E", "R", "Y", "_", "L", "O", "N", "G", "_", "N", "A", "M", "E", "}", "}">> }

\* Chains of operations and the expression text 'V op n unit op n unit ...'.
OpTriples == [operator : Operators, amount : {1, 2}, unit : {"day", "month", "year"}]

Chains == UNION {[1..k -> OpTriples] : k \in 0..MaxOps}

\* Chains at the interval limit.
LimitChains ==
  { <<[operator |-> "+", amount |-> 10000, unit |-> "years"]>>,
    <<[operator |-> "-", amount |-> 10000, unit |-> "years"]>>,
    <<[operator |-> "+", amount |-> 10000, unit |-> "weeks"]>> }

RECURSIVE ChainText(_)
ChainText(chain) ==
  IF Len(chain) = 0 THEN <<>>
  ELSE << " ", Head(chain).operator, " " >> \o NatToStr(Head(chain).amount) \o << " " >>
       \o UnitText(Head(chain).unit) \o ChainText(Tail(chain))

ExpressionText(name, chain) == name \o ChainText(chain)

RECURSIVE Flatten(_)
Flatten(chunks) == IF Len(chunks) = 0 THEN <<>> ELSE Head(chunks) \o Flatten(Tail(chunks))

Texts == {Flatten(cs) : cs \in UNION {[1..k -> Chunks] : k \in 0..MaxChunks}}

\* Expression texts for parse: a primary, a run of well-formed operations
\* (with amounts at and above the limits) and a tail that is empty, a
\* trailing token or a malformed operation; with and without spaces.
ParsePrimaries == {<<"M", "Y", "_", "D">>, <<"d">>, <<"1">>, <<>>}

TripleTexts ==
  { <<"+", "1", "d", "a", "y">>, <<" ", "-", " ", "2", " ", "w", "e", "e", "k", "s">>, <<" ", "+", " ", "1", "0", "0", " ", "m", "o", "n", "t", "h", "s">>, <<" ", "+", " ", "1", "0", "1", " ", "y", "e", "a", "r", "s">>, <<" ", "+", " ", "1", "0", "0", "0", "0", " ", "d", "a", "y", "s">>,
    <<" ", "+", " ", "1", "0", "0", "0", "1", " ", "d", "a", "y", "s">> }

ParseTrailers ==
  { <<>>, <<" ", "X">>, <<" ", "+">>, <<" ", "+", " ", "0", " ", "d", "a", "y", "s">>, <<" ", "+", " ", "-", "5", " ", "d", "a", "y", "s">>, <<" ", "+", " ", "x", " ", "d", "a", "y", "s">>, <<" ", "+", " ", "1">>, <<" ", "*", " ", "1", " ", "d", "a", "y", "s">>,
    <<" ", "+", " ", "1", " ", "d", "a", "y", "z">> }

Repeat(c, n) == [i \in 1..n |-> c]

\* Texts at the length limits.
BoundaryTexts ==
  { <<"M", "Y", "_", "D", "+", "1", "d", "a", "y", "s">>, <<"M", "Y", "_", "D", "+", "1", "d", "a", "y", "s", " ">>, Repeat("A", 200), Repeat("A", 201), Repeat("*", 201),
    Repeat("A", 190) \o <<"+", "1", "0", "0", "0", "1", "d", "a", "y", "s">> }

ParseInputs ==
  { p \o Flatten(ts) \o r :
      p \in ParsePrimaries, ts \in UNION {[1..k -> TripleTexts] : k \in 0..MaxOps},
      r \in ParseTrailers }
  \cup BoundaryTexts

\* The options given to parse: the defaults, a lower interval limit and a
\* lower length limit.
ParseLimits ==
  { [maxExpressionLength |-> 200, maxIntervalAmount |-> 10000],
    [maxExpressionLength |-> 200, maxIntervalAmount |-> 100],
    [maxExpressionLength |-> 10, maxIntervalAmount |-> 10000] }

\* Expressions given to validateExpression, each without and with braces.
ValidateExpressions ==
  { <<"D">>, <<" ", "D", " ", "+", " ", "1", " ", "d", "a", "y", " ">>, <<"d">>, <<"D", " ", "+", " ", "0", " ", "d", "a", "y", "s">>, <<"D", "+", "1", "0", "1", "d", "a", "y", "s">>, <<"U", "N", "D", "E", "F">>, <<"U", "N", "D", "E", "F", " ", "-", " ", "2", " ", "w", "e", "e", "k", "s">>,
    <<"D", " ", "+", " ", "2", " ", "w", "e", "e", "k", "s", " ", "-", " ", "1", " ", "m", "o", "n", "t", "h", " ", "X">>, <<>>, <<"{", "{", "D">>, <<"D", "}", "}">>, <<"D", "*", "2">> }

Braced(e) == <<"{", "{">> \o e \o <<"}", "}">>

\* Field identifiers given to evaluate as its third argument.
FieldIds == {<<"f", "i", "e", "l", "d", "-", "1", "2", "3">>, <<"f">>}

\* Short chains for calls that are not about the chain.
ShortChains == {<<>>, <<[operator |-> "+", amount |-> 1, unit |-> "day"]>>}

Init ==
  /\ options \in OptionSets
  /\ call = NoCall

\* The exported functions of date-utils do not read the engine; they are
\* called next to the default engine only.
AddToDate ==
  /\ call = NoCall
  /\ options = DefaultOptions
  /\ \E c \in SampleCivil, amount \in SampleAmounts, unit \in TimeUnits, operator \in Operators :
       call' = [op |-> "addToDate", civil |-> c, date |-> CivilToDate(c), amount |-> amount,
                unit |-> unit, operator |-> operator,
                result |-> addToDate(CivilToDate(c), amount, unit, operator)]
  /\ UNCHANGED options

ParseDate ==
  /\ call = NoCall
  /\ options = DefaultOptions
  /\ \E host \in Hosts :
       \E value \in {PlainText(y, m, d) : y \in PlainYears, m \in PlainMonths, d \in PlainDays}
                      \cup OtherTexts :
         call' = [op |-> "parseDate", host |-> host, value |-> value,
                  result |-> parseDate(host, value)]
  /\ UNCHANGED options

FormatDate ==
  /\ call = NoCall
  /\ options = DefaultOptions
  /\ \E date \in FormatInputs :
       call' = [op |-> "formatDate", date |-> date, result |-> formatDate(date)]
  /\ UNCHANGED options

ResolveNames == {NameDATE, NameNAME, NameD, NameN, NameUNDEF, NameNOW}

\* new VariableResolver(context, options.systemVariables).resolve(name)
Resolve ==
  /\ call = NoCall
  /\ \E context \in EvalContexts, host \in Hosts, name \in ResolveNames :
       call' = [op |-> "resolve", context |-> context, host |-> host, name |-> name,
                result |-> resolve(context, MergeSystemVariables(options.systemVariables),
                                   host, name)]
  /\ UNCHANGED options

\* engine.processText(text, context)
ProcessText ==
  /\ call = NoCall
  /\ \E text \in Texts, context \in Contexts, host \in {h \in Hosts : h.tz = 330} :
       call' = [op |-> "processText", text |-> text, context |-> context, host |-> host,
                result |-> processText(options, text, context, host)]
  /\ UNCHANGED options

\* The call of evaluate on a successfully parsed expression.
EvaluateParsed(name, chain, context, host, parsed) ==
  /\ parsed.success
  /\ call' = [op |-> "evaluate", name |-> name, chain |-> chain,
              text |-> ExpressionText(name, chain),
              context |-> context, host |-> host, ast |-> parsed.value,
              result |-> evaluate(parsed.value, context, NoSystemVariables, host)]

\* evaluate(parse(text).value, context), as the evaluator's callers do.
Evaluate ==
  /\ call = NoCall
  /\ options = DefaultOptions
  /\ \E name \in {NameD, NameDATE, NameN}, chain \in Chains \cup LimitChains,
        context \in EvalContexts,
        host \in {h \in Hosts : h.tz = 330} :
       EvaluateParsed(name, chain, context, host,
                      parse(ExpressionText(name, chain),
                            [maxExpressionLength |-> 200, maxIntervalAmount |-> 10000]))
  /\ UNCHANGED options

\* parse(expression, limits)
Parse ==
  /\ call = NoCall
  /\ options = DefaultOptions
  /\ \E expression \in ParseInputs, limits \in ParseLimits :
       call' = [op |-> "parse", expression |-> expression, limits |-> limits,
                result |-> parse(expression, limits)]
  /\ UNCHANGED options

\* engine.extractExpressions(text), called twice on the same text; the
\* method does not read the engine's options.
ExtractExpressions ==
  /\ call = NoCall
  /\ options = DefaultOptions
  /\ \E text \in Texts :
       call' = [op |-> "extractExpressions", text |-> text,
                result |-> extractExpressions(text), again |-> extractExpressions(text)]
  /\ UNCHANGED options

\* engine.validateExpression(expression), for an expression given without
\* or with its braces.
ValidateExpression ==
  /\ call = NoCall
  /\ \E e \in ValidateExpressions, braced \in BOOLEAN :
       call' = [op |-> "validateExpression", e |-> e, braced |-> braced,
                expression |-> IF braced THEN Braced(e) ELSE e,
                result |-> validateExpression(options, IF braced THEN Braced(e) ELSE e)]
  /\ UNCHANGED options

\* The call of evaluate with a field identifier on a parsed expression.
EvaluateFieldParsed(name, chain, context, host, fieldId, parsed) ==
  /\ parsed.success
  /\ call' = [op |-> "evaluateField", name |-> name, chain |-> chain, context |-> context,
              host |-> host, fieldId |-> fieldId,
              result |-> evaluate(parsed.value, context, spreadString(fieldId), host)]

\* evaluate(parse(text).value, context, 'field-123'): the third parameter of
\* evaluate is systemVariables.
EvaluateField ==
  /\ call = NoCall
  /\ options = DefaultOptions
  /\ \E name \in {NameD, NameN}, chain \in ShortChains, context \in EvalContexts,
        host \in {h \in Hosts : h.tz = 330 /\ h.lenient}, fieldId \in FieldIds :
       EvaluateFieldParsed(name, chain, context, host, fieldId,
                           parse(ExpressionText(name, chain),
                                 [maxExpressionLength |-> 200, maxIntervalAmount |-> 10000]))
  /\ UNCHANGED options

Next ==
  AddToDate \/ ParseDate \/ FormatDate \/ Resolve \/ ProcessText \/ Evaluate \/ Parse
    \/ ExtractExpressions \/ ValidateExpression \/ EvaluateField

Spec == Init /\ [][Next]_vars

(***************************************************************************)
(* One engine used for several calls.  options is the engine's own         *)
(* configuration object, with the Date object that a custom DATE provider  *)
(* returns on every invocation; call records the last call, the context    *)
(* object it was given as it is after the call, and the calls made so far. *)
(***************************************************************************)
MaxCalls == 2

\* addToDate that writes the Date it was given ('const result = date').
dateArgumentInPlace(date, amount, unit, operator) == addToDate(date, amount, unit, operator)

\* The Date given to addToDate, after the call: result is new Date(date), a
\* copy, and the setters are applied to result alone.
dateArgumentAfter(date, amount, unit, operator) == date

\* The Date object held by the DATE provider, after evaluateNode(node):
\* evaluateDateArithmetic hands the Date of its base value to addToDate, and
\* that Date is the provider's own object when the base is the variable DATE
\* resolved by the provider; an outer operation is given the Date that the
\* inner addToDate returned.
RECURSIVE providerDateAfter(_, _, _)
providerDateAfter(node, context, date) ==
  IF node.type # "date_arithmetic" THEN date
  ELSE IF node.base.type = "date_arithmetic" THEN providerDateAfter(node.base, context, date)
  ELSE IF node.base.name = NameDATE /\ NameDATE \notin DOMAIN context
  THEN dateArgumentAfter(date, node.amount, node.unit, node.operator)
  ELSE date

\* The engine's options after the callback of processText has handled one
\* token: parse reads the limits, evaluate reads the system variables.
optionsAfterParsed(opts, parseResult, context) ==
  IF parseResult.success /\ NameDATE \in DOMAIN opts.systemVariables
       /\ opts.systemVariables[NameDATE].kind = "returns"
  THEN [opts EXCEPT !.systemVariables[NameDATE].date =
                      providerDateAfter(parseResult.value, context, @)]
  ELSE opts

optionsAfterCallback(opts, match, context) ==
  optionsAfterParsed(opts,
                     parse(Trim(SubSeq(match, 3, Len(match) - 2)),
                           [maxExpressionLength |-> opts.maxExpressionLength,
                            maxIntervalAmount |-> opts.maxIntervalAmount]),
                     context)

\* The engine's options after processText has handled the matches k, k+1, ...
RECURSIVE optionsAfterReplaceAll(_, _, _, _, _)
optionsAfterReplaceAll(opts, text, ms, k, context) ==
  IF k > Len(ms) THEN opts
  ELSE optionsAfterReplaceAll(
         optionsAfterCallback(opts, SubSeq(text, ms[k].from, ms[k].to), context),
         text, ms, k + 1, context)

optionsAfterProcessText(opts, text, context) ==
  optionsAfterReplaceAll(opts, text, Matches(text), 1, context)

JanuaryDate == DateUTC(2026, 1, 31)

\* The configurations an engine is constructed with.
SessionOptions ==
  { DefaultOptions,
    EngineOptions(10, 100, NoSystemVariables),
    EngineOptions(200, 10000, [n \in {NameDATE} |-> ProvReturns(ChristmasDate)]),
    EngineOptions(200, 10000, [n \in {NameDATE} |-> ProvReturns(JanuaryDate)]) }

SessionTexts ==
  { <<"{", "{", "D", "A", "T", "E", " ", "+", " ", "1", " ", "m", "o", "n", "t", "h", "}", "}">>,
    <<"{", "{", "D", "A", "T", "E", "}", "}", " ", "a", "n", "d", " ", "{", "{", "D", "A", "T", "E", " ", "-", " ", "1", " ", "d", "a", "y", "}", "}">>,
    <<"H", "i", " ", "{", "{", "N", "A", "M", "E", "}", "}">>,
    <<"{", "{", "D", " ", "+", " ", "1", " ", "m", "o", "n", "t", "h", "}", "}", "{", "{", "D", "A", "T", "E", " ", "+", " ", "2", " ", "y", "e", "a", "r", "s", " ", "-", " ", "1", " ", "d", "a", "y", "}", "}">>,
    <<"{", "{", "U", "N", "D", "E", "F", "}", "}", " ", "{", "{", "x", "}", "}">> }

SessionExpressions == {<<"D", "A", "T", "E", " ", "+", " ", "1", " ", "m", "o", "n", "t", "h">>, <<"{", "{", "D", "}", "}">>, <<"D", " ", "+", " ", "0", " ", "d", "a", "y", "s">>}

SessionHost == [lenient |-> FALSE, tz |-> 330, today |-> [y |-> 2026, m |-> 2, d |-> 16]]

\* new ExpressionEngine(options)
SessionInit ==
  /\ options \in SessionOptions
  /\ call = [op |-> "none", constructed |-> options, history |-> <<>>]

\* engine.processText(text, context)
SessionProcessText ==
  /\ Len(call.history) < MaxCalls
  /\ \E text \in SessionTexts, context \in Contexts :
       /\ call' = [op |-> "processText", constructed |-> call.constructed,
                   history |-> Append(call.history, [op |-> "processText", input |-> text]),
                   text |-> text, context |-> context, contextAfter |-> context,
                   result |-> processText(options, text, context, SessionHost),
                   fresh |-> processText(call.constructed, text, context, SessionHost)]
       /\ options' = optionsAfterProcessText(options, text, context)

\* engine.extractExpressions(text): the method reads no field of the engine.
SessionExtractExpressions ==
  /\ Len(call.history) < MaxCalls
  /\ \E text \in SessionTexts :
       call' = [op |-> "extractExpressions", constructed |-> call.constructed,
                history |-> Append(call.history, [op |-> "extractExpressions", input |-> text]),
                text |-> text, context |-> ContextEmpty, contextAfter |-> ContextEmpty,
                result |-> extractExpressions(text),
                fresh |-> extractExpressions(text)]
  /\ UNCHANGED options

\* engine.validateExpression(expression): parse reads the two limits.
SessionValidateExpression ==
  /\ Len(call.history) < MaxCalls
  /\ \E expression \in SessionExpressions :
       call' = [op |-> "validateExpression", constructed |-> call.constructed,
                history |-> Append(call.history, [op |-> "validateExpression", input |-> expression]),
                text |-> expression, context |-> ContextEmpty, contextAfter |-> ContextEmpty,
                result |-> validateExpression(options, expression),
                fresh |-> validateExpression(call.constructed, expression)]
  /\ UNCHANGED options

SessionNext == SessionProcessText \/ SessionExtractExpressions \/ SessionValidateExpression

SessionSpec == SessionInit /\ [][SessionNext]_vars

(***************************************************************************)
(* processText step by step: the iterations of the tokenizer's main loop   *)
(* and of the parser's operator loop, and the calls and returns of the     *)
(* evaluator's recursion, for one call of processText.  call holds the     *)
(* position in the code (pc) and the locals of the running methods.        *)
(***************************************************************************)
\* The operator branch of tokenize without its call of advance.
operatorEndStuck(s, p) == p

\* The position after the operator branch of tokenize: one call of advance.
operatorEnd(s, p) == p + 1

\* One iteration of the main loop of tokenize, entered at a position before
\* the end of the input: the whitespace is skipped, then a token is read, or
\* the loop is left at the end of the input, or an error is thrown.
tokenizeBranch(s, p) ==
  IF p >= Len(s) THEN [kind |-> "break", position |-> p, token |-> Token("EOF", <<>>, p), error |-> NoError]
  ELSE IF s[p + 1] \in UpperChars
  THEN [kind |-> "token", position |-> RunEnd(s, p, UpperChars),
        token |-> Token("VAR", SubSeq(s, p + 1, RunEnd(s, p, UpperChars)), p), error |-> NoError]
  ELSE IF isValidOperator(s[p + 1])
  THEN [kind |-> "token", position |-> operatorEnd(s, p),
        token |-> Token("OPERATOR", <<s[p + 1]>>, p), error |-> NoError]
  ELSE IF s[p + 1] \in DigitChars
  THEN [kind |-> "token", position |-> RunEnd(s, p, DigitChars),
        token |-> Token("NUMBER", SubSeq(s, p + 1, RunEnd(s, p, DigitChars)), p), error |-> NoError]
  ELSE IF s[p + 1] \in LowerChars
  THEN [kind |-> "token", position |-> RunEnd(s, p, LowerChars),
        token |-> Token("UNIT", SubSeq(s, p + 1, RunEnd(s, p, LowerChars)), p), error |-> NoError]
  ELSE [kind |-> "error", position |-> p, token |-> Token("EOF", <<>>, p),
        error |-> PlainError(<<"Unexpected character '", s[p + 1], "' at position ">> \o NatToStr(p))]

tokenizeIteration(s, position) == tokenizeBranch(s, skipWhitespace(s, position))

\* One iteration of the loop of parseExpression, entered with an OPERATOR
\* token as the current token.
parseIteration(tokens, current, node, maxIntervalAmount) ==
  LET opToken == currentToken(tokens, current)
      c1 == advance(tokens, current)
      numToken == currentToken(tokens, c1)
      amount == DigitsToNat(numToken.value)
      c2 == advance(tokens, c1)
      unitToken == currentToken(tokens, c2)
      c3 == advance(tokens, c2)
  IN  IF ~isValidOperator(opToken.value[1])
      THEN ParseThrow(<<"Invalid operator '", opToken.value[1], "'">>, opToken)
      ELSE IF numToken.type # "NUMBER"
      THEN ParseThrow(<<"Expected ", "NUMBER", ", got ", numToken.type>>, numToken)
      ELSE IF amount <= 0
      THEN ParseThrow(<<"Interval amount must be a positive integer">>, numToken)
      ELSE IF amount > maxIntervalAmount
      THEN ParseThrow(<<"Interval amount ">> \o NatToStr(amount) \o <<" exceeds maximum ">>
                        \o NatToStr(maxIntervalAmount), numToken)
      ELSE IF unitToken.type # "UNIT"
      THEN ParseThrow(<<"Expected ", "UNIT", ", got ", unitToken.type>>, unitToken)
      ELSE IF ~isValidTimeUnit(unitToken.value)
      THEN ParseThrow(<<"Invalid time unit '">> \o unitToken.value
                        \o <<"'. Must be one of: day, days, week, weeks, month, months, year, years">>,
                      unitToken)
      ELSE ParseOk(wrapNode(node, opToken.value[1], amount, UnitName(unitToken.value)), c3)

RunTexts ==
  { <<"H", "i", " ", "{", "{", "N", "A", "M", "E", "}", "}">>,
    <<"{", "{", "D", " ", "+", " ", "1", " ", "m", "o", "n", "t", "h", " ", "-", " ", "2", " ", "d", "a", "y", "s", "}", "}", " ", "{", "{", "D", "A", "T", "E", "+", "1", "d", "a", "y", "}", "}">>,
    <<"{", "{", "N", "A", "M", "E", " ", "+", " ", "1", " ", "d", "a", "y", "}", "}", "{", "{", "U", "N", "D", "E", "F", " ", "-", " ", "1", " ", "w", "e", "e", "k", "}", "}">>,
    <<"{", "{", "D", " ", "+", " ", "1", " ", "d", "a", "y", " ", "+", " ", "1", " ", "d", "a", "y", " ", "+", " ", "1", " ", "d", "a", "y", "}", "}">>,
    <<"{", "{", "A", "*", "}", "}", " ", "{", "{", "D", " ", "+", "}", "}">>,
    <<"{", "{", "D", " ", "+", " ", "0", " ", "d", "a", "y", "s", "}", "}", "{", "{", "D", " ", "1", "}", "}">>,
    <<"{", "{", "x", "}", "}", "{", "{", "D", " ", "+", " ", "1", " ", "d", "a", "y", "z", "}", "}", "{", "{", "D", " ", "+", " ", "1", "0", "1", " ", "d", "a", "y", "s", "}", "}">>,
    <<"{", "{", " ", "D", "+", "x", " ", "}", "}", " ", "}", "{", " ", "{", "{", "D", " ", "+", " ", "1", " ", "m", "o", "n", "t", "h", " ", "+", " ", "2", "}", "}">>,
    <<"n", "o", " ", "t", "o", "k", "e", "n", "s">> }

RunOptions == {DefaultOptions, EngineOptions(10, 100, NoSystemVariables)}

RunContexts == {ContextPlain, ContextEmpty}

RunLimits == [maxExpressionLength |-> options.maxExpressionLength,
              maxIntervalAmount |-> options.maxIntervalAmount]

\* The current match of the regex (call.ms holds the matches the regex finds
\* in the text), the text copied before it and the expression the callback
\* parses.
RunMatch == SubSeq(call.text, call.ms[call.k].from, call.ms[call.k].to)

RunGap ==
  SubSeq(call.text,
         (IF call.k = 1 THEN 1 ELSE call.ms[call.k - 1].to + 1),
         call.ms[call.k].from - 1)

RunExpression == Trim(SubSeq(call.text, call.ms[call.k].from + 2, call.ms[call.k].to - 2))

\* The callback returns r: the replacement is appended and the regex goes on
\* after the match.
RunReturn(r) ==
  call' = [call EXCEPT !.pc = "replace", !.k = @ + 1,
                       !.acc = appendReplacement(@, RunGap, r)]

RunFailParse(parseResult) ==
  RunReturn(callbackParsed(RunMatch, parseResult, options, call.context, SessionHost))

RunInit ==
  /\ options \in RunOptions
  /\ \E text \in RunTexts, context \in RunContexts :
       call = [pc |-> "replace", text |-> text, context |-> context,
               ms |-> Matches(text), k |-> 1, expression |-> <<>>,
               acc |-> [text |-> <<>>, errors |-> <<>>, invoked |-> 0],
               s |-> <<>>, position |-> 0, tokens |-> <<>>, current |-> 0,
               node |-> NoNode, ast |-> NoNode, stack |-> <<>>,
               value |-> ReturnedNull(0), calls |-> 0]

\* text.replace finds no further match: the rest of the text is copied.
RunFinish ==
  /\ call.pc = "replace"
  /\ call.k > Len(call.ms)
  /\ call' = [call EXCEPT !.pc = "done",
                !.acc.text = @ \o SubSeq(call.text,
                                         (IF call.k = 1 THEN 1
                                          ELSE call.ms[call.k - 1].to + 1),
                                         Len(call.text))]
  /\ UNCHANGED options

\* The callback is called for the next match: parse checks the length and
\* constructs the tokenizer on the trimmed expression.
RunCallback ==
  /\ call.pc = "replace"
  /\ call.k <= Len(call.ms)
  /\ IF Len(RunExpression) > options.maxExpressionLength
     THEN RunFailParse(parse(RunExpression, RunLimits))
     ELSE call' = [call EXCEPT !.pc = "tokenize", !.expression = RunExpression,
                                !.s = Trim(RunExpression), !.position = 0,
                                !.tokens = <<>>, !.calls = 0, !.stack = <<>>]
  /\ UNCHANGED options

\* One iteration of the main loop of tokenize.
RunTokenizeIteration ==
  /\ call.pc = "tokenize"
  /\ call.position < Len(call.s)
  /\ IF tokenizeIteration(call.s, call.position).kind = "error"
     THEN RunFailParse(parseTokens(call.expression,
                         [ok |-> FALSE, tokens |-> call.tokens,
                          error |-> tokenizeIteration(call.s, call.position).error],
                         RunLimits))
     ELSE IF tokenizeIteration(call.s, call.position).kind = "break"
     THEN call' = [call EXCEPT !.position = tokenizeIteration(call.s, call.position).position]
     ELSE call' = [call EXCEPT !.position = tokenizeIteration(call.s, call.position).position,
                                !.tokens = Append(@, tokenizeIteration(call.s, call.position).token)]
  /\ UNCHANGED options

\* The main loop of tokenize is left: the EOF token is pushed and the parser
\* is constructed on the tokens.
RunTokenizeEnd ==
  /\ call.pc = "tokenize"
  /\ call.position >= Len(call.s)
  /\ call' = [call EXCEPT !.pc = "primary", !.current = 0,
                !.tokens = Append(@, Token("EOF", <<>>, call.position))]
  /\ UNCHANGED options

\* parsePrimary
RunParsePrimary ==
  /\ call.pc = "primary"
  /\ IF parsePrimary(call.tokens, call.current).ok
     THEN call' = [call EXCEPT !.pc = "operations",
                     !.current = parsePrimary(call.tokens, call.current).current,
                     !.node = parsePrimary(call.tokens, call.current).node]
     ELSE RunFailParse(toParseResult(parsePrimary(call.tokens, call.current)))
  /\ UNCHANGED options

RunParsed(r) ==
  IF r.ok THEN call' = [call EXCEPT !.current = r.current, !.node = r.node]
  ELSE RunFailParse(toParseResult(r))

\* One iteration of the loop of parseExpression.
RunParseIteration ==
  /\ call.pc = "operations"
  /\ currentToken(call.tokens, call.current).type = "OPERATOR"
  /\ RunParsed(parseIteration(call.tokens, call.current, call.node, options.maxIntervalAmount))
  /\ UNCHANGED options

\* The loop of parseExpression is left: Parser.parse checks for the EOF
\* token and evaluate is called on the AST.
RunParseEnd ==
  /\ call.pc = "operations"
  /\ currentToken(call.tokens, call.current).type # "OPERATOR"
  /\ IF currentToken(call.tokens, call.current).type # "EOF"
     THEN RunFailParse(toParseResult(
            ParseThrow(<<"Unexpected tokens after expression">>,
                       currentToken(call.tokens, call.current))))
     ELSE call' = [call EXCEPT !.pc = "evaluate", !.ast = call.node]
  /\ UNCHANGED options

\* Evaluator.evaluate is entered for a node: a variable is resolved, the
\* base of an operation is evaluated first.
RunEvaluateCall ==
  /\ call.pc = "evaluate"
  /\ IF call.node.type = "var_ref"
     THEN call' = [call EXCEPT !.pc = "return", !.calls = @ + 1,
                     !.value = evaluateVarRef(call.node, call.context,
                                              MergeSystemVariables(options.systemVariables),
                                              SessionHost)]
     ELSE call' = [call EXCEPT !.calls = @ + 1, !.stack = Append(@, call.node),
                                !.node = call.node.base]
  /\ UNCHANGED options

\* evaluate(node.base) returns to evaluateDateArithmetic.
RunEvaluateReturn ==
  /\ call.pc = "return"
  /\ Len(call.stack) > 0
  /\ call.value.kind # "throw"
  /\ call' = [call EXCEPT !.stack = SubSeq(@, 1, Len(@) - 1),
                !.value = applyDateArithmetic(call.stack[Len(call.stack)], call.value)]
  /\ UNCHANGED options

\* The outermost evaluate returns, or a thrown error reaches the catch
\* block: the callback returns the value or pushes the error.
RunEvaluateEnd ==
  /\ call.pc = "return"
  /\ (Len(call.stack) = 0 \/ call.value.kind = "throw")
  /\ RunReturn(callbackEvaluated(RunMatch, toEvaluationResult(call.value)))
  /\ UNCHANGED options

RunNext ==
  RunFinish \/ RunCallback \/ RunTokenizeIteration \/ RunTokenizeEnd \/ RunParsePrimary
    \/ RunParseIteration \/ RunParseEnd \/ RunEvaluateCall \/ RunEvaluateReturn
    \/ RunEvaluateEnd

\* The thread that runs processText is never suspended: there is no lock,
\* no await and no callback into the event loop in the code.
RunSpec == RunInit /\ [][RunNext]_vars /\ WF_vars(RunNext)

(***************************************************************************)
(* Calendar reference: shifting a calendar date (y, m, d) within the       *)
(* proleptic Gregorian calendar, computed on the fields alone.             *)
(***************************************************************************)
Min(a, b) == IF a < b THEN a ELSE b

Signed(n, operator) == IF operator = "+" THEN n ELSE 0 - n

ExpectedMonthShift(c, n, operator) ==
  LET idx == 12 * c.y + (c.m - 1) + Signed(n, operator)
      y2 == idx \div 12
      m2 == (idx % 12) + 1
  IN  [y |-> y2, m |-> m2, d |-> Min(c.d, DaysInMonth(y2, m2))]

ExpectedYearShift(c, n, operator) ==
  LET y2 == c.y + Signed(n, operator)
  IN  [y |-> y2, m |-> c.m, d |-> Min(c.d, DaysInMonth(y2, c.m))]

CivilDaysInYear(y) == 337 + DaysInMonth(y, 2)

\* The calendar date n >= 0 days after c.
RECURSIVE CivilPlusDays(_, _)
CivilPlusDays(c, n) ==
  IF c.m = 1 /\ c.d = 1 /\ n >= CivilDaysInYear(c.y)
  THEN CivilPlusDays([y |-> c.y + 1, m |-> 1, d |-> 1], n - CivilDaysInYear(c.y))
  ELSE IF n <= DaysInMonth(c.y, c.m) - c.d THEN [y |-> c.y, m |-> c.m, d |-> c.d + n]
  ELSE CivilPlusDays(IF c.m = 12 THEN [y |-> c.y + 1, m |-> 1, d |-> 1]
                                 ELSE [y |-> c.y, m |-> c.m + 1, d |-> 1],
                     n - (DaysInMonth(c.y, c.m) - c.d) - 1)

\* The calendar date n >= 0 days before c.
RECURSIVE CivilMinusDays(_, _)
CivilMinusDays(c, n) ==
  IF c.m = 12 /\ c.d = 31 /\ n >= CivilDaysInYear(c.y)
  THEN CivilMinusDays([y |-> c.y - 1, m |-> 12, d |-> 31], n - CivilDaysInYear(c.y))
  ELSE IF n < c.d THEN [y |-> c.y, m |-> c.m, d |-> c.d - n]
  ELSE CivilMinusDays(IF c.m = 1 THEN [y |-> c.y - 1, m |-> 12, d |-> 31]
                                 ELSE [y |-> c.y, m |-> c.m - 1, d |-> DaysInMonth(c.y, c.m - 1)],
                      n - c.d)

ExpectedDayShift(c, n, operator) ==
  IF operator = "+" THEN CivilPlusDays(c, n) ELSE CivilMinusDays(c, n)

\* The calendar fields of a Date, as its UTC getters report them.
DateToCivil(date) == [y |-> getUTCFullYear(date), m |-> getUTCMonth(date) + 1, d |-> getUTCDate(date)]

OtherSpelling(unit) ==
  CASE unit = "day" -> "days" [] unit = "days" -> "day"
    [] unit = "week" -> "weeks" [] unit = "weeks" -> "week"
    [] unit = "month" -> "months" [] unit = "months" -> "month"
    [] unit = "year" -> "years" [] unit = "years" -> "year"

(***************************************************************************)
(* Claims                                                                  *)
(***************************************************************************)

\* C5: addToDate with unit month/months returns the date whose year and month
\* are those of month index 12*y + m shifted by +n or -n, and whose day is
\* min(d, length of the target month).
C5_MonthArithmetic ==
  (call.op = "addToDate" /\ call.unit \in {"month", "months"}) =>
    /\ ~call.result.nan
    /\ DateToCivil(call.result) = ExpectedMonthShift(call.civil, call.amount, call.operator)
    /\ call.result = CivilToDate(ExpectedMonthShift(call.civil, call.amount, call.operator))

\* A month shift that is clamped and crosses more than one year boundary.
C5_Witness ==
  /\ call.op = "addToDate" /\ call.unit = "months" /\ call.operator = "-"
  /\ getUTCDate(call.result) < call.civil.d
  /\ getUTCFullYear(call.result) < call.civil.y - 1

\* C6: addToDate with unit year/years returns (y +/- n, m, d) when that day
\* exists and otherwise, which happens only for Feb 29, Feb 28 of the target
\* year; the month never changes.
C6_YearArithmetic ==
  (call.op = "addToDate" /\ call.unit \in {"year", "years"}) =>
    LET want == ExpectedYearShift(call.civil, call.amount, call.operator)
        got == DateToCivil(call.result)
    IN  /\ ~call.result.nan
        /\ got = want
        /\ got.m = call.civil.m
        /\ got.y = call.civil.y + Signed(call.amount, call.operator)
        /\ got.d # call.civil.d => (call.civil.m = 2 /\ call.civil.d = 29 /\ got.d = 28)

\* Feb 29 shifted to a year that is not a leap year.
C6_Witness ==
  /\ call.op = "addToDate" /\ call.unit = "year"
  /\ call.civil.m = 2 /\ call.civil.d = 29
  /\ DateToCivil(call.result) = [y |-> call.civil.y + call.amount, m |-> 2, d |-> 28]

\* C7: with unit day/days the result is the calendar date exactly n days
\* after or before the date, with unit week/weeks it is the result for 7n
\* days, and both spellings of a unit give the same result.
C7_DayWeekArithmetic ==
  (call.op = "addToDate") =>
    /\ call.unit \in {"day", "days"} =>
         DateToCivil(call.result) = ExpectedDayShift(call.civil, call.amount, call.operator)
    /\ call.unit \in {"week", "weeks"} =>
         /\ DateToCivil(call.result) = ExpectedDayShift(call.civil, 7 * call.amount, call.operator)
         /\ call.result = addToDate(call.date, 7 * call.amount, "days", call.operator)
    /\ call.result = addToDate(call.date, call.amount, OtherSpelling(call.unit), call.operator)
    /\ call.unit \in {"day", "days", "week", "weeks"} => call.result.tod = call.date.tod

\* A week shift backwards across a leap day and a year boundary.
C7_Witness ==
  /\ call.op = "addToDate" /\ call.unit = "weeks" /\ call.operator = "-"
  /\ call.civil = [y |-> 2024, m |-> 3, d |-> 1] /\ call.amount = 12
  /\ DateToCivil(call.result) = [y |-> 2023, m |-> 12, d |-> 8]

\* C9: for every valid calendar date d at midnight UTC whose year has four
\* digits at most, parseDate(formatDate(d)) succeeds and denotes d; and for
\* every plain YYYY-MM-DD text s that parseDate accepts,
\* formatDate(parseDate(s)) = s.
C9_RoundTrip ==
  /\ (call.op = "formatDate" /\ ~call.date.nan /\ call.date.tod = 0
        /\ getUTCFullYear(call.date) \in 0..9999) =>
       \A host \in Hosts : parseDate(host, call.result) = FoundDate(call.date)
  /\ (call.op = "parseDate" /\ isoDateRegex(call.value) /\ call.result.found) =>
       formatDate(call.result.date) = call.value

\* C10: for a text of the plain form dddd-dd-dd, parseDate returns a date
\* exactly when the text names an existing calendar date, and that date.
C10_PlainDateAccepted ==
  (call.op = "parseDate" /\ isoDateRegex(call.value)) =>
    LET y == DigitsToNat(SubSeq(call.value, 1, 4))
        m == DigitsToNat(SubSeq(call.value, 6, 7))
        d == DigitsToNat(SubSeq(call.value, 9, 10))
        exists == m \in 1..12 /\ d >= 1 /\ d <= DaysInMonth(y, m)
    IN  /\ call.result.found <=> exists
        /\ call.result.found => call.result.date = DateUTC(y, m, d)

(***************************************************************************)
(* Reference definitions for the engine's claims                           *)
(***************************************************************************)
TokenText(text, m) == SubSeq(text, m.from, m.to)

\* The text between match k - 1 and match k of ms (k = Len(ms) + 1: the rest).
GapBefore(text, ms, k) ==
  SubSeq(text, (IF k = 1 THEN 1 ELSE ms[k - 1].to + 1),
               (IF k > Len(ms) THEN Len(text) ELSE ms[k].from - 1))

\* What one token is replaced by, decided from that token alone.
TokenParse(opts, token) ==
  parse(Trim(SubSeq(token, 3, Len(token) - 2)),
        [maxExpressionLength |-> opts.maxExpressionLength,
         maxIntervalAmount |-> opts.maxIntervalAmount])

OutcomeEvaluated(token, evalResult) ==
  [success |-> evalResult.success,
   piece |-> IF evalResult.success THEN evalResult.value ELSE token]

OutcomeParsed(token, parseResult, opts, context, host) ==
  IF parseResult.success
  THEN OutcomeEvaluated(token, evaluate(parseResult.value, context, opts.systemVariables, host))
  ELSE [success |-> FALSE, piece |-> token]

\* Whether the token parses and evaluates, and the text in its place.
TokenOutcome(opts, token, context, host) ==
  OutcomeParsed(token, TokenParse(opts, token), opts, context, host)

TokenSucceeds(opts, token, context, host) == TokenOutcome(opts, token, context, host).success

TokenPiece(opts, token, context, host) == TokenOutcome(opts, token, context, host).piece

\* The gaps and the tokens' pieces from match k on, built from the right.
RECURSIVE ExpectedFrom(_, _, _, _, _, _)
ExpectedFrom(opts, text, ms, k, context, host) ==
  IF k > Len(ms) THEN GapBefore(text, ms, k)
  ELSE GapBefore(text, ms, k) \o TokenPiece(opts, TokenText(text, ms[k]), context, host)
       \o ExpectedFrom(opts, text, ms, k + 1, context, host)

FailedTokens(opts, text, ms, context, host) ==
  {k \in 1..Len(ms) : ~TokenSucceeds(opts, TokenText(text, ms[k]), context, host)}

\* C1: processText treats every matched token independently: a token that
\* parses and evaluates is replaced by the evaluated string, a failing token
\* is left unchanged and adds exactly one error; the number of errors is the
\* number of failed tokens and no token's replacement depends on another.
C1_TokensIndependent ==
  (call.op = "processText") =>
    LET ms == Matches(call.text)
    IN  /\ call.result.text = ExpectedFrom(options, call.text, ms, 1, call.context, call.host)
        /\ Len(call.result.errors) = Cardinality(FailedTokens(options, call.text, ms, call.context, call.host))

\* A failing token followed by a token that is replaced.
C1_Witness ==
  /\ call.op = "processText"
  /\ call.text = <<"{", "{", "U", "N", "D", "E", "F", "}", "}", "{", "{", " ", "D", " ", "+", " ", "1", " ", "m", "o", "n", "t", "h", " ", "}", "}">>
  /\ call.context = ContextPlain
  /\ call.result.text = <<"{", "{", "U", "N", "D", "E", "F", "}", "}", "2", "0", "2", "6", "-", "0", "2", "-", "2", "8">>
  /\ Len(call.result.errors) = 1

\* The leftmost occurrence of piece in s that starts at index from or later
\* (0 if there is none).
RECURSIVE FindFrom(_, _, _)
FindFrom(s, piece, from) ==
  IF from + Len(piece) - 1 > Len(s) THEN 0
  ELSE IF SubSeq(s, from, from + Len(piece) - 1) = piece THEN from
  ELSE FindFrom(s, piece, from + 1)

\* out from index from on consists of texts in place of the tokens k - 1 ..
\* Len(ms), separated by the gaps k .. Len(ms) + 1 of text, the last gap
\* ending out.
RECURSIVE GapsInOrder(_, _, _, _, _)
GapsInOrder(out, text, ms, k, from) ==
  LET gap == GapBefore(text, ms, k)
  IN  IF k > Len(ms)
      THEN /\ Len(out) - Len(gap) + 1 >= from
           /\ SubSeq(out, Len(out) - Len(gap) + 1, Len(out)) = gap
      ELSE /\ FindFrom(out, gap, from) > 0
           /\ GapsInOrder(out, text, ms, k + 1, FindFrom(out, gap, from) + Len(gap))

\* C2: processText changes nothing outside the matched tokens: the text
\* before, between and after the tokens appears unchanged and in order in the
\* output, and for a text without a token the output is the input and there
\* is no error.
C2_OutsideTokensUnchanged ==
  (call.op = "processText") =>
    LET ms == Matches(call.text)
        first == GapBefore(call.text, ms, 1)
    IN  /\ Len(ms) = 0 => (call.result.text = call.text /\ call.result.errors = <<>>)
        /\ SubSeq(call.result.text, 1, Len(first)) = first
        /\ Len(ms) > 0 => GapsInOrder(call.result.text, call.text, ms, 2, Len(first) + 1)

\* A replaced token followed by stray braces.
C2_Witness ==
  /\ call.op = "processText"
  /\ call.text = <<"{", "{", "N", "A", "M", "E", "}", "}", "}", "{">>
  /\ call.context = ContextPlain
  /\ call.result.text = <<"W", "o", "r", "l", "d", "}", "{">>
  /\ call.result.errors = <<>>

ErrorCodes == {"EXPRESSION_TOO_LONG", "PARSE_ERROR", "UNDEFINED_VARIABLE", "TYPE_ERROR",
               "EVALUATION_ERROR"}

\* The provider of DATE throws and the token k of the call reads it.
ProviderFailsAt(k) ==
  LET token == TokenText(call.text, Matches(call.text)[k])
      parsed == TokenParse(options, token)
  IN  /\ NameDATE \in DOMAIN options.systemVariables
      /\ options.systemVariables[NameDATE].kind = "throws"
      /\ NameDATE \notin DOMAIN call.context
      /\ parsed.success
      /\ evaluateNode(parsed.value, call.context,
                      MergeSystemVariables(options.systemVariables), call.host).kind = "throw"
      /\ evaluateNode(parsed.value, call.context,
                      MergeSystemVariables(options.systemVariables), call.host).invoked = 1

\* C3: a failure of the provider during processText is
\* reported for its token with code EVALUATION_ERROR, and every error code is
\* one of EXPRESSION_TOO_LONG, PARSE_ERROR, UNDEFINED_VARIABLE, TYPE_ERROR,
\* EVALUATION_ERROR.
C3_ErrorCodesClosed ==
  (call.op = "processText") =>
    /\ \A i \in 1..Len(call.result.errors) : call.result.errors[i].code \in ErrorCodes
    /\ \A k \in 1..Len(Matches(call.text)) :
         ProviderFailsAt(k) =>
           \E i \in 1..Len(call.result.errors) : call.result.errors[i].code = "EVALUATION_ERROR"

\* C4: a name in the user context resolves to the value inferred from the
\* context string without invoking any provider, also when the name is a
\* system variable; a resolution invokes a provider at most once.
C4_UserShadowsSystem ==
  (call.op = "resolve") =>
    /\ call.result.invoked <= 1
    /\ call.name \in DOMAIN call.context =>
         LET value == call.context[call.name]
             date == parseDate(call.host, value)
         IN  /\ call.result.kind = "value"
             /\ call.result.invoked = 0
             /\ date.found => call.result.value = DateValue(date.date)
             /\ ~date.found => call.result.value.type \in {"number", "string"}
             /\ call.result.value.type = "string" => call.result.value.str = value
             /\ call.result.value.type = "number" => call.result.value.num = Number(value)

\* DATE is in the user context and has a provider that returns another date.
C4_Witness ==
  /\ call.op = "resolve" /\ call.name = NameDATE
  /\ call.context = ContextShadow
  /\ NameDATE \in DOMAIN options.systemVariables
  /\ options.systemVariables[NameDATE] = ProvReturns(ChristmasDate)
  /\ call.result = Returned(DateValue(DateUTC(2025, 1, 1)), 0)

\* The operations of chain applied to date in textual order, from the k-th on.
RECURSIVE ApplyFrom(_, _, _)
ApplyFrom(date, chain, k) ==
  IF k > Len(chain) THEN date
  ELSE ApplyFrom(addToDate(date, chain[k].amount, chain[k].unit, chain[k].operator), chain, k + 1)

\* C8: evaluating 'V op1 n1 u1 op2 n2 u2 ...' with V a date gives the date
\* obtained by applying the intervals from left to right, each to the result
\* of the previous one.
C8_ChainLeftToRight ==
  (call.op = "evaluate") =>
    LET base == resolve(call.context, MergeSystemVariables(NoSystemVariables), call.host, call.name)
    IN  (base.kind = "value" /\ base.value.type = "date") =>
          /\ call.result.success
          /\ call.result.value = formatDate(ApplyFrom(base.value.date, call.chain, 1))

\* 2026-01-31 + 1 month - 1 day: the clamped intermediate date is shifted.
C8_Witness ==
  /\ call.op = "evaluate" /\ call.name = NameD /\ call.context = ContextPlain
  /\ call.chain = << [operator |-> "+", amount |-> 1, unit |-> "month"],
                     [operator |-> "-", amount |-> 1, unit |-> "day"] >>
  /\ call.result.value = <<"2", "0", "2", "6", "-", "0", "2", "-", "2", "7">>


\* The grammar read off a token sequence: one Variable token of [A-Z_]+, then
\* triples (Operator, Number in 1..maxIntervalAmount, Unit), then end of input.
GrammarTokens(tokens, maxIntervalAmount) ==
  LET n == Len(tokens)
  IN  /\ n >= 2 /\ (n - 2) % 3 = 0
      /\ tokens[1].type = "VAR" /\ Len(tokens[1].value) > 0
      /\ \A i \in 1..Len(tokens[1].value) : tokens[1].value[i] \in UpperChars
      /\ tokens[n].type = "EOF"
      /\ \A k \in 1..((n - 2) \div 3) :
           /\ tokens[3 * k - 1].type = "OPERATOR"
           /\ tokens[3 * k - 1].value \in {<<"+">>, <<"-">>}
           /\ tokens[3 * k].type = "NUMBER"
           /\ DigitsToNat(tokens[3 * k].value) \in 1..maxIntervalAmount
           /\ tokens[3 * k + 1].type = "UNIT"
           /\ tokens[3 * k + 1].value \in {UnitText(u) : u \in TimeUnits}

AcceptedTokens(tokenized, maxIntervalAmount) ==
  tokenized.ok /\ GrammarTokens(tokenized.tokens, maxIntervalAmount)

\* C11: parse(e) succeeds if and only if e is no longer than
\* maxExpressionLength and its token sequence is one Variable token followed
\* by zero or more triples (Operator, Number in 1..maxIntervalAmount, valid
\* Unit) and then end of input.
C11_ParseAcceptsGrammar ==
  call.op = "parse" =>
    (call.result.success <=>
       /\ Len(call.expression) <= call.limits.maxExpressionLength
       /\ AcceptedTokens(tokenize(call.expression), call.limits.maxIntervalAmount))

\* A chain of two operations, written with and without spaces, is accepted.
C11_Witness ==
  /\ call.op = "parse"
  /\ call.expression = <<"M", "Y", "_", "D", "+", "1", "d", "a", "y", " ", "-", " ", "2", " ", "w", "e", "e", "k", "s">>
  /\ call.limits.maxExpressionLength = 200
  /\ call.result.success
  /\ call.result.value.type = "date_arithmetic"

\* The amounts of the operations of an AST.
RECURSIVE Amounts(_)
Amounts(node) ==
  IF node.type = "date_arithmetic" THEN {node.amount} \cup Amounts(node.base) ELSE {}

\* C12: every failing parse of an expression within the length limit has
\* code PARSE_ERROR, and no successful parse yields an AST that contains a
\* zero or negative amount.
C12_FailuresAreParseErrors ==
  (call.op = "parse" /\ Len(call.expression) <= call.limits.maxExpressionLength) =>
    /\ ~call.result.success => call.result.error.code = "PARSE_ERROR"
    /\ call.result.success => \A a \in Amounts(call.result.value) : a > 0

\* The negative-looking interval '+ -5 days' fails with PARSE_ERROR.
C12_Witness ==
  /\ call.op = "parse"
  /\ call.expression = <<"M", "Y", "_", "D", " ", "+", " ", "-", "5", " ", "d", "a", "y", "s">>
  /\ call.limits.maxExpressionLength = 200
  /\ ~call.result.success
  /\ call.result.error.code = "PARSE_ERROR"
  /\ call.result.error.token = <<"-">>

\* C13: parse returns EXPRESSION_TOO_LONG whenever the raw expression has
\* more than maxExpressionLength characters, whatever else is wrong with it,
\* and never rejects an expression of at most that length for its length.
C13_LengthLimit ==
  call.op = "parse" =>
    /\ Len(call.expression) > call.limits.maxExpressionLength =>
         (~call.result.success /\ call.result.error.code = "EXPRESSION_TOO_LONG")
    /\ Len(call.expression) <= call.limits.maxExpressionLength =>
         call.result.error.code # "EXPRESSION_TOO_LONG"

\* 201 illegal characters under the default limit of 200.
C13_Witness ==
  /\ call.op = "parse"
  /\ call.expression = Repeat("*", 201)
  /\ call.limits.maxExpressionLength = 200
  /\ ~call.result.success
  /\ call.result.error.code = "EXPRESSION_TOO_LONG"
  /\ call.result.error.token = call.expression

\* The numbers written in an expression, read off its tokens.
NumbersOf(tokens) ==
  {DigitsToNat(tokens[i].value) : i \in {j \in 1..Len(tokens) : tokens[j].type = "NUMBER"}}

IntervalLimitOn(tokenized, maxIntervalAmount, result) ==
  tokenized.ok =>
    /\ (\E n \in NumbersOf(tokenized.tokens) : n > maxIntervalAmount) =>
         (~result.success /\ result.error.code = "PARSE_ERROR")
    /\ (/\ GrammarTokens(tokenized.tokens, maxIntervalAmount + 1)
        /\ \A n \in NumbersOf(tokenized.tokens) : n <= maxIntervalAmount) =>
         result.success
    /\ result.success => Amounts(result.value) \subseteq 1..maxIntervalAmount

\* C14: within the length limit, an expression with an amount greater than
\* maxIntervalAmount anywhere fails with PARSE_ERROR, a well-formed chain
\* whose amounts are all at most the limit (the limit included) is
\* accepted, and every amount of a parsed AST lies in 1..maxIntervalAmount.
C14_IntervalLimit ==
  (/\ call.op = "parse"
   /\ Len(call.expression) <= call.limits.maxExpressionLength) =>
    IntervalLimitOn(tokenize(call.expression), call.limits.maxIntervalAmount, call.result)

\* The second operation of a chain exceeds the limit of 100 by one, after a
\* first operation at the limit.
C14_Witness ==
  /\ call.op = "parse"
  /\ call.expression = <<"M", "Y", "_", "D", " ", "+", " ", "1", "0", "0", " ", "m", "o", "n", "t", "h", "s", " ", "+", " ", "1", "0", "1", " ", "y", "e", "a", "r", "s">>
  /\ call.limits.maxIntervalAmount = 100
  /\ ~call.result.success
  /\ call.result.error.code = "PARSE_ERROR"
  /\ call.result.error.token = <<"1", "0", "1">>

\* C15: an expression with at least one operation whose variable resolves
\* to a number or a string fails with TYPE_ERROR, the message names the type
\* found, and no value is returned.
C15_ArithmeticOnNonDate ==
  (/\ call.op = "evaluate"
   /\ Len(call.chain) >= 1
   /\ resolve(call.context, DEFAULT_SYSTEM_VARIABLES, call.host, call.name).kind = "value"
   /\ resolve(call.context, DEFAULT_SYSTEM_VARIABLES, call.host, call.name).value.type
        \in {"number", "string"}) =>
    /\ ~call.result.success
    /\ call.result.value = <<>>
    /\ call.result.error.code = "TYPE_ERROR"
    /\ call.result.error.message =
         << "Cannot perform date arithmetic on ",
            resolve(call.context, DEFAULT_SYSTEM_VARIABLES, call.host, call.name).value.type,
            " value" >>

\* N is '2026-02-30', which looks like a date and is not one: string.
C15_Witness ==
  /\ call.op = "evaluate" /\ call.name = NameN /\ call.context = ContextShadow
  /\ call.chain = << [operator |-> "+", amount |-> 1, unit |-> "day"] >>
  /\ ~call.result.success
  /\ call.result.error.code = "TYPE_ERROR"
  /\ call.result.error.message = << "Cannot perform date arithmetic on ", "string", " value" >>

\* C16: a variable that is neither in the user context nor a system
\* variable makes evaluation fail with UNDEFINED_VARIABLE whose token is the
\* variable's name, for a bare reference and for a chain of any length.
C16_UndefinedVariable ==
  /\ (/\ call.op = "evaluate"
      /\ call.name \notin DOMAIN call.context
      /\ call.name \notin DOMAIN DEFAULT_SYSTEM_VARIABLES) =>
       /\ ~call.result.success
       /\ call.result.value = <<>>
       /\ call.result.error.code = "UNDEFINED_VARIABLE"
       /\ call.result.error.token = call.name
  /\ (/\ call.op = "processText"
      /\ call.text = <<"{", "{">> \o NameUNDEF \o <<"}", "}">>) =>
       /\ call.result.text = call.text
       /\ Len(call.result.errors) = 1
       /\ call.result.errors[1].code = "UNDEFINED_VARIABLE"
       /\ call.result.errors[1].token = NameUNDEF

\* D + 1 month - 1 day with an empty context.
C16_Witness ==
  /\ call.op = "evaluate" /\ call.name = NameD /\ call.context = ContextEmpty
  /\ Len(call.chain) = 2
  /\ ~call.result.success
  /\ call.result.error.code = "UNDEFINED_VARIABLE"
  /\ call.result.error.token = NameD

\* A decimal numeral: an optional sign, then digits with at most one point
\* and at least one digit.  (Of the texts JavaScript converts to a number,
\* the contexts used here contain decimal numerals only.)
IsDecimalText(t) ==
  /\ Len(t) > 0
  /\ LET body == IF t[1] \in {"+", "-"} THEN Tail(t) ELSE t
     IN  /\ \A i \in 1..Len(body) : body[i] \in DigitChars \cup {"."}
         /\ Cardinality({i \in 1..Len(body) : body[i] = "."}) <= 1
         /\ \E i \in 1..Len(body) : body[i] \in DigitChars

\* C17: a user value is typed date exactly when parseDate accepts it,
\* otherwise number exactly when its trimmed text is non-empty and is a
\* numeral, otherwise string with the context string unchanged; a bare
\* variable of type string is substituted verbatim.
C17_TypeInference ==
  /\ (call.op = "resolve" /\ call.name \in DOMAIN call.context) =>
       /\ call.result.kind = "value"
       /\ call.result.invoked = 0
       /\ call.result.value.type =
            (IF parseDate(call.host, call.context[call.name]).found THEN "date"
             ELSE IF IsDecimalText(Trim(call.context[call.name])) THEN "number"
             ELSE "string")
       /\ call.result.value.type = "string" =>
            call.result.value.str = call.context[call.name]
  /\ (/\ call.op = "evaluate" /\ call.name \in DOMAIN call.context /\ Len(call.chain) = 0
      /\ ~parseDate(call.host, call.context[call.name]).found
      /\ ~IsDecimalText(Trim(call.context[call.name]))) =>
       (call.result.success /\ call.result.value = call.context[call.name])

\* A value of three spaces is a string, kept as it is.
C17_Witness ==
  /\ call.op = "resolve" /\ call.name = NameD /\ call.context = ContextOdd
  /\ call.result.value.type = "string"
  /\ call.result.value.str = <<" ", " ", " ">>

\* Text of the form YYYY-MM-DD: four digits, '-', two digits, '-', two digits.
IsPaddedDateText(t) ==
  /\ Len(t) = 10
  /\ t[5] = "-" /\ t[8] = "-"
  /\ \A i \in {1, 2, 3, 4, 6, 7, 9, 10} : t[i] \in DigitChars

\* C18: every date-valued result is emitted as zero-padded YYYY-MM-DD: the
\* result of evaluating a date variable shifted by any chain of intervals
\* within the limits has four year digits, two month digits and two day
\* digits, with no sign and no time component.
C18_ZeroPaddedOutput ==
  (/\ call.op = "evaluate"
   /\ call.result.success
   /\ resolve(call.context, DEFAULT_SYSTEM_VARIABLES, call.host, call.name).kind = "value"
   /\ resolve(call.context, DEFAULT_SYSTEM_VARIABLES, call.host, call.name).value.type = "date") =>
    IsPaddedDateText(call.result.value)

\* text[i..j] is a {{...}} token: two opening braces, a non-empty inner text
\* without a closing brace, two closing braces.
IsTokenAt(text, i, j) ==
  /\ i >= 1 /\ j <= Len(text) /\ j >= i + 4
  /\ text[i] = "{" /\ text[i + 1] = "{"
  /\ text[j - 1] = "}" /\ text[j] = "}"
  /\ \A k \in (i + 2)..(j - 2) : text[k] # "}"

TokenStarts(text, from) ==
  {i \in from..Len(text) : \E j \in i..Len(text) : IsTokenAt(text, i, j)}

\* The tokens of text from index from on, leftmost first, not overlapping.
RECURSIVE TokensFrom(_, _)
TokensFrom(text, from) ==
  IF TokenStarts(text, from) = {} THEN <<>>
  ELSE LET i == CHOOSE a \in TokenStarts(text, from) : \A b \in TokenStarts(text, from) : a <= b
           j == CHOOSE b \in i..Len(text) : IsTokenAt(text, i, b)
       IN  <<SubSeq(text, i, j)>> \o TokensFrom(text, j + 1)

\* C19: extractExpressions(text) returns exactly the {{...}} tokens of the
\* text, braces included, one entry per occurrence in left-to-right order,
\* unparsed; the empty sequence when there is none; and a second call on the
\* same text returns the same sequence.
C19_ExtractExpressions ==
  call.op = "extractExpressions" =>
    /\ call.result = TokensFrom(call.text, 1)
    /\ call.again = call.result

\* Two tokens that do not parse or evaluate are returned as they are.
C19_Witness ==
  /\ call.op = "extractExpressions"
  /\ call.text = <<"{", "{", "x", "}", "}", "{", "{", "U", "N", "D", "E", "F", "}", "}">>
  /\ call.result = << <<"{", "{", "x", "}", "}">>, <<"{", "{", "U", "N", "D", "E", "F", "}", "}">> >>

\* C20: validateExpression gives the same result for an expression with and
\* without its braces, valid is true exactly when parse of the trimmed inner
\* text succeeds under the engine's limits, and an error message is present
\* exactly when valid is false.
C20_ValidateSyntaxOnly ==
  call.op = "validateExpression" =>
    /\ call.result = validateExpression(options, Braced(call.e))
    /\ call.result = validateExpression(options, call.e)
    /\ call.result.valid <=>
         parse(Trim(call.e), [maxExpressionLength |-> options.maxExpressionLength,
                              maxIntervalAmount |-> options.maxIntervalAmount]).success
    /\ call.result.hasError <=> ~call.result.valid

\* C21: when evaluate is called with a field identifier as its third
\* argument and evaluation fails, the returned error carries that identifier
\* in error.fieldId.
C21_FieldIdCarried ==
  (call.op = "evaluateField" /\ ~call.result.success) =>
    fieldIdOf(call.result.error) = call.fieldId

\* C22: for an ISO date-time input only the date component is retained: the
\* Date produced by parseDate has no time of day and equals the Date
\* produced from the YYYY-MM-DD prefix of the input.
C22_DateTimeKeepsDateOnly ==
  (/\ call.op = "parseDate"
   /\ isoDateTimeRegex(call.value)
   /\ call.result.found) =>
    /\ call.result.date.tod = 0
    /\ call.result.date = parseDate(call.host, SubSeq(call.value, 1, 10)).date

\* C23: a name that is a key of the merged system-variable mapping and is
\* not in the user context resolves to a Date value obtained by invoking
\* that key's provider; resolve reports not-found only for names that are in
\* neither mapping.
C23_SystemKeysResolve ==
  (call.op = "resolve" /\ call.name \notin DOMAIN call.context) =>
    /\ call.name \in DOMAIN MergeSystemVariables(options.systemVariables) =>
         /\ call.result.kind = "value"
         /\ call.result.value.type = "date"
         /\ call.result.invoked = 1
    /\ call.result.kind = "null" =>
         call.name \notin DOMAIN MergeSystemVariables(options.systemVariables)

\* The end of the non-greedy match that starts at i: '{{', at least one
\* character, then the first following '}}'; 0 when there is none.
NonGreedyAt(text, i) ==
  IF i + 1 <= Len(text) /\ text[i] = "{" /\ text[i + 1] = "{"
       /\ \E e \in (i + 3)..(Len(text) - 1) : text[e] = "}" /\ text[e + 1] = "}"
  THEN 1 + CHOOSE e \in (i + 3)..(Len(text) - 1) :
             /\ text[e] = "}" /\ text[e + 1] = "}"
             /\ \A k \in (i + 3)..(e - 1) : ~(text[k] = "}" /\ text[k + 1] = "}")
  ELSE 0

RECURSIVE NonGreedyFrom(_, _)
NonGreedyFrom(text, i) ==
  IF i > Len(text) THEN <<>>
  ELSE IF NonGreedyAt(text, i) > 0
  THEN <<SubSeq(text, i, NonGreedyAt(text, i))>> \o NonGreedyFrom(text, NonGreedyAt(text, i) + 1)
  ELSE NonGreedyFrom(text, i + 1)

NonGreedyTokens(text) == NonGreedyFrom(text, 1)

\* C24: the tokens of a text are the non-greedy matches from each '{{' to
\* the first following '}}' with non-empty inner text, a single '}' inside
\* included: extractExpressions returns exactly these, and processText
\* either replaces or reports each of them.
C24_NonGreedyTokens ==
  /\ call.op = "extractExpressions" => call.result = NonGreedyTokens(call.text)
  /\ (call.op = "processText" /\ Len(NonGreedyTokens(call.text)) > 0) =>
       (call.result.text # call.text \/ Len(call.result.errors) > 0)

\* The nodes of an AST from its leaf outwards.
RECURSIVE Spine(_)
Spine(node) ==
  IF node.type = "date_arithmetic" THEN Append(Spine(node.base), node) ELSE <<node>>

OperatorCount(tokens) == Cardinality({i \in 1..Len(tokens) : tokens[i].type = "OPERATOR"})

\* The tokens of the first k operations, closed by an end-of-input token.
TokenPrefix(tokens, k) ==
  Append(SubSeq(tokens, 1, 3 * k + 1), Token("EOF", <<>>, tokens[3 * k + 2].position))

\* The node is the operation of the tokens 3k-1, 3k and 3k+1 on base.
OperationOf(node, tokens, k, base) ==
  /\ node.type = "date_arithmetic"
  /\ node.operator = tokens[3 * k - 1].value[1]
  /\ node.amount = DigitsToNat(tokens[3 * k].value)
  /\ node.unit = UnitName(tokens[3 * k + 1].value)
  /\ node.base = base

LeftLeaningSpine(spine, tokens, operators, maxIntervalAmount) ==
  /\ Len(spine) = operators + 1
  /\ spine[1] = VarRef(tokens[1].value)
  /\ \A k \in 1..operators :
       /\ OperationOf(spine[k + 1], tokens, k, spine[k])
       /\ spine[k] = parserParse(TokenPrefix(tokens, k - 1), maxIntervalAmount).node

LeftLeaningChain(ast, tokens, maxIntervalAmount) ==
  LeftLeaningSpine(Spine(ast), tokens, OperatorCount(tokens), maxIntervalAmount)

\* C25: the AST of a successful parse is a left-leaning chain: its depth is
\* the number of operator tokens, its leaf is the VariableReference of the
\* first token, the k-th node from the leaf carries the k-th operator,
\* amount and unit of the text, and its base is the AST of the tokens to its
\* left.
C25_LeftLeaningChain ==
  (call.op = "parse" /\ call.result.success) =>
    LeftLeaningChain(call.result.value, tokenize(call.expression).tokens,
                     call.limits.maxIntervalAmount)

\* 'MY_D - 2 weeks + 100 months' parses to a chain of depth two with the
\* subtraction innermost.
C25_Witness ==
  /\ call.op = "parse"
  /\ call.expression = <<"M", "Y", "_", "D", " ", "-", " ", "2", " ", "w", "e", "e", "k", "s", " ", "+", " ", "1", "0", "0", " ", "m", "o", "n", "t", "h", "s">>
  /\ call.result.success
  /\ Len(Spine(call.result.value)) = 3
  /\ call.result.value.operator = "+"
  /\ call.result.value.amount = 100
  /\ call.result.value.base.operator = "-"
  /\ call.result.value.base.unit = "weeks"
  /\ call.result.value.base.base = VarRef(<<"M", "Y", "_", "D">>)

\* The texts of the tokens before the end-of-input token, joined with gap
\* between every two adjacent tokens.
RECURSIVE JoinTokens(_, _)
JoinTokens(tokens, gap) ==
  IF Len(tokens) <= 1 THEN <<>>
  ELSE IF Len(tokens) = 2 THEN tokens[1].value
  ELSE tokens[1].value \o gap \o JoinTokens(Tail(tokens), gap)

\* The expression with gap inserted before its token number i.
InsertAt(trimmed, position, gap) ==
  SubSeq(trimmed, 1, position) \o gap \o SubSeq(trimmed, position + 1, Len(trimmed))

InsertBefore(expression, tokens, i, gap) == InsertAt(Trim(expression), tokens[i].position, gap)

\* Whitespace between tokens: none, one space, mixed, and a long run.
Gaps == {<<>>, <<" ">>, <<" ", "\t", "\n", " ">>, Repeat(" ", 40)}

\* The re-spacings of an expression with the given tokens.
Respaced(expression, tokens) ==
  {Trim(expression)}
    \cup {JoinTokens(tokens, gap) : gap \in Gaps}
    \cup {InsertBefore(expression, tokens, i, gap) :
            i \in 2..(Len(tokens) - 1), gap \in Gaps \ {<<>>}}

EndsWithOneEOF(tokens) ==
  /\ Len(tokens) >= 1
  /\ tokens[Len(tokens)].type = "EOF"
  /\ \A i \in 1..(Len(tokens) - 1) : tokens[i].type # "EOF"

OneEOFWhenOk(tokenized) == tokenized.ok => EndsWithOneEOF(tokenized.tokens)

\* The tokens without their positions.
TokenShapes(tokens) ==
  [i \in 1..Len(tokens) |-> [type |-> tokens[i].type, value |-> tokens[i].value]]

SameTokens(tokenized, tokens) ==
  /\ tokenized.ok
  /\ TokenShapes(tokenized.tokens) = TokenShapes(tokens)

\* parsed, the result of parse(e, limits), is result when e is within the
\* length limit and the EXPRESSION_TOO_LONG failure otherwise.
ParsesWithinLimit(e, parsed, limits, result) ==
  IF Len(e) <= limits.maxExpressionLength
  THEN parsed = result
  ELSE ~parsed.success /\ parsed.error.code = "EXPRESSION_TOO_LONG"

\* C26 as stated: every re-spacing of a successfully parsed expression
\* parses to the identical AST, whatever its length, and a token sequence
\* ends with exactly one End-of-Input token.
C26_WhitespaceInsignificant ==
  call.op = "parse" =>
    /\ OneEOFWhenOk(tokenize(call.expression))
    /\ call.result.success =>
         \A e \in Respaced(call.expression, tokenize(call.expression).tokens) :
           parse(e, call.limits) = call.result

\* C26, amended: a re-spacing of a successfully parsed expression has the
\* same tokens up to their positions; it parses to the identical AST when
\* its raw length is within maxExpressionLength and fails with
\* EXPRESSION_TOO_LONG otherwise; a token sequence ends with exactly one
\* End-of-Input token.
C26_WhitespaceWithinLimit ==
  call.op = "parse" =>
    /\ OneEOFWhenOk(tokenize(call.expression))
    /\ call.result.success =>
         \A e \in Respaced(call.expression, tokenize(call.expression).tokens) :
           /\ SameTokens(tokenize(e), tokenize(call.expression).tokens)
           /\ ParsesWithinLimit(e, parse(e, call.limits), call.limits, call.result)

\* 'MY_D+1day' parses under a length limit of 10, its re-spacing
\* 'MY_D + 1 day' is longer than the limit, and without spaces it still
\* parses to the same AST.
C26_Witness ==
  /\ call.op = "parse"
  /\ call.expression = <<"M", "Y", "_", "D", "+", "1", "d", "a", "y">>
  /\ call.limits.maxExpressionLength = 10
  /\ call.result.success
  /\ call.result.value
       = DateArithmetic(VarRef(<<"M", "Y", "_", "D">>), "+", 1, "day")
  /\ <<"M", "Y", "_", "D", " ", "+", " ", "1", " ", "d", "a", "y">>
       \in Respaced(call.expression, tokenize(call.expression).tokens)

RECURSIVE NodeCount(_)
NodeCount(node) == IF node.type = "date_arithmetic" THEN 1 + NodeCount(node.base) ELSE 1

\* An iteration of the tokenizer's main loop consumes at least one character
\* or aborts the parse with one error.
RunTokenizerProgress ==
  (call.pc = "tokenize" /\ call.position < Len(call.s)) =>
    \/ call'.pc = "tokenize" /\ call'.position > call.position
                             /\ call'.position <= Len(call.s)
    \/ call'.pc = "replace" /\ Len(call'.acc.errors) = Len(call.acc.errors) + 1

\* An iteration of the parser's operator loop consumes three tokens or aborts
\* the parse with one error.
RunParserProgress ==
  (call.pc = "operations" /\ currentToken(call.tokens, call.current).type = "OPERATOR") =>
    \/ call'.pc = "operations" /\ call'.current = call.current + 3
    \/ call'.pc = "replace" /\ Len(call'.acc.errors) = Len(call.acc.errors) + 1

\* The parser's index stays on a token: it never passes the EOF token, which
\* is the last token and the only EOF token.
RunParserBounded ==
  call.pc \in {"primary", "operations"} =>
    /\ call.current < Len(call.tokens)
    /\ call.tokens[Len(call.tokens)].type = "EOF"
    /\ \A i \in 1..(Len(call.tokens) - 1) : call.tokens[i].type # "EOF"

\* When the recursion of the evaluator returns, evaluate has been entered
\* once for every node of the AST.
RunEvaluatorOncePerNode ==
  /\ call.pc = "evaluate" => call.calls = NodeCount(call.ast) - NodeCount(call.node)
  /\ call.pc = "return" => call.calls = NodeCount(call.ast)

\* The steps compute what processText returns.
RunResult ==
  call.pc = "done" =>
    call.acc = processText(options, call.text, call.context, SessionHost)

\* C28: every operation terminates: an iteration of the tokenizer's main
\* loop consumes at least one character or aborts, an iteration of the
\* parser's operator loop consumes three tokens or aborts, the parser never
\* advances past the End-of-Input token, the evaluator is entered once per
\* AST node, and every call of processText, with the tokenize, parse and
\* evaluate calls it makes, finishes.
C28_Terminates ==
  /\ [](RunParserBounded /\ RunEvaluatorOncePerNode /\ RunResult)
  /\ [][RunTokenizerProgress /\ RunParserProgress]_vars
  /\ <>(call.pc = "done")

\* processText has finished on a text with two tokens, one of them a chain
\* of two operations, after three calls of evaluate for the last token.
C28_Witness ==
  /\ call.pc = "done"
  /\ call.text = <<"{", "{", "N", "A", "M", "E", " ", "+", " ", "1", " ", "d", "a", "y", "}", "}", "{", "{", "U", "N", "D", "E", "F", " ", "-", " ", "1", " ", "w", "e", "e", "k", "}", "}">>
  /\ call.context = ContextPlain
  /\ call.k = 3
  /\ Len(call.acc.errors) = 2
  /\ call.calls = 2
  /\ Len(call.tokens) = 5

\* The tokens of the text whose value itself contains text of the form {{X}}.
ValueHasToken(outcome) == outcome.success /\ Len(Matches(outcome.piece)) > 0

TokensWithTokenValue(opts, text, ms, context, host) ==
  {k \in 1..Len(ms) : ValueHasToken(TokenOutcome(opts, TokenText(text, ms[k]), context, host))}

\* C29: substitution is single-pass: when the value of a token contains text
\* of the form {{X}}, the value is in the output verbatim, X is not
\* evaluated and no error is recorded for it: the output is the gaps and
\* the tokens' own pieces, the errors are those of the failing tokens of the
\* input alone, and a value that contains a token stays in the output as a
\* token.
C29_SinglePass ==
  (/\ call.op = "processText"
   /\ TokensWithTokenValue(options, call.text, Matches(call.text), call.context, call.host) # {}) =>
    /\ call.result.text
         = ExpectedFrom(options, call.text, Matches(call.text), 1, call.context, call.host)
    /\ Len(call.result.errors)
         = Cardinality(FailedTokens(options, call.text, Matches(call.text), call.context, call.host))
    /\ Len(Matches(call.result.text))
         >= Cardinality(TokensWithTokenValue(options, call.text, Matches(call.text),
                                              call.context, call.host))

\* 'Hi {{NAME}}' with NAME = '{{D}}' and D defined gives 'Hi {{D}}' and no
\* error.
C29_Witness ==
  /\ call.op = "processText"
  /\ call.text = <<"H", "i", " ", "{", "{", "N", "A", "M", "E", "}", "}">>
  /\ call.context = ContextShadow
  /\ call.context[NameNAME] = <<"{", "{", "D", "}", "}">>
  /\ NameD \in DOMAIN call.context
  /\ call.result.text = <<"H", "i", " ", "{", "{", "D", "}", "}">>
  /\ call.result.errors = <<>>

\* The errors that the tokens k, k+1, ... push, each token taken alone, in
\* the order of the tokens in the text.
RECURSIVE ErrorsInOrder(_, _, _, _, _, _)
ErrorsInOrder(opts, text, ms, k, context, host) ==
  IF k > Len(ms) THEN <<>>
  ELSE replaceCallback(TokenText(text, ms[k]), opts, context, host).pushed
       \o ErrorsInOrder(opts, text, ms, k + 1, context, host)

ReplacedTokens(opts, text, ms, context, host) ==
  {k \in 1..Len(ms) : TokenSucceeds(opts, TokenText(text, ms[k]), context, host)}

\* C30: tokens are processed left to right, once each: the errors of
\* processText are the errors of the failing tokens in their order in the
\* text, and the number of tokens replaced plus the number of errors is the
\* length of extractExpressions(text).
C30_ErrorsLeftToRight ==
  call.op = "processText" =>
    /\ call.result.errors
         = ErrorsInOrder(options, call.text, Matches(call.text), 1, call.context, call.host)
    /\ Cardinality(ReplacedTokens(options, call.text, Matches(call.text), call.context, call.host))
         + Len(call.result.errors)
         = Len(extractExpressions(call.text))

\* Two failing tokens: the parse error of the first comes before the
\* undefined variable of the second.
C30_Witness ==
  /\ call.op = "processText"
  /\ call.text = <<"{", "{", "x", "}", "}", "{", "{", "U", "N", "D", "E", "F", "}", "}">>
  /\ Len(call.result.errors) = 2
  /\ call.result.errors[1].code = "PARSE_ERROR"
  /\ call.result.errors[1].token = <<"{", "{", "x", "}", "}">>
  /\ call.result.errors[2].code = "UNDEFINED_VARIABLE"
  /\ Len(extractExpressions(call.text)) = 2
====
